---- MODULE Spec2Model ----
(***************************************************************************)
(* Model of the long-running operation client of the churn-prediction      *)
(* wizard: the SSE stream sessions of services/api.ts (trainModelStream,   *)
(* predictStream) and the request executor of services/http.ts             *)
(* (HttpClient.request) with the error normalizer of utils/errors.ts.      *)
(*                                                                         *)
(* Text is a sequence of one-character strings, so that the buffer scan,   *)
(* trim, line split and prefix tests are computed as the code computes     *)
(* them.  JavaScript values are tagged records.                            *)
(***************************************************************************)
EXTENDS Integers, Sequences, FiniteSets, TLC

VARIABLES
    op,         \* which stream function runs: "train" or "predict"
    res,        \* the initial response of the stream's fetch
    stream,     \* the bytes the server sends on the response body
    pos,        \* how many of them the transport has handed to read()
    inbox,      \* the settled result of the outstanding reader.read(), if any
    pc,         \* "fetch" | "read" | "stop": where the stream function is
    sess,       \* the closure state of the session (buffer, settled, ...)
    cancelled,  \* the caller has abandoned the call
    readAfterCancel, \* a read result was handled after that
    other,      \* a second stream call running alongside, with its own closure
    hpc,        \* HttpClient.request: "idle" | "fetch" | "body" | "done"
    hopts,      \* its options: timeoutMs
    hres,       \* its response, once the headers are in
    now,        \* the clock
    timer,      \* the timeout timer: "none" | "armed" | "fired" | "cleared"
    aborted,    \* controller.signal.aborted
    hout,       \* what request returned or threw
    firedAt,    \* when the timer fired, -1 before (history)
    firedIn,    \* where request was when it fired: "fetch" | "body" (history)
    bodyRead,   \* how the body read ended: "read" | "aborted" | "failed" (history)
    fetchCalls, \* how many times request has called fetch (history)
    parse,      \* one frame handed to the frame parse, and what the parse made of it
    md,         \* a getModelDetails call
    wiz,        \* the state of the useWizard hook
    app         \* the state of the App component and its calls in flight

svars == <<op, res, stream, pos, inbox, pc, sess, cancelled, readAfterCancel, other>>
hvars == <<hpc, hopts, hres, now, timer, aborted, hout, firedAt, firedIn, bodyRead,
           fetchCalls>>
vars == <<op, res, stream, pos, inbox, pc, sess, cancelled, readAfterCancel, other,
          hpc, hopts, hres, now, timer, aborted, hout, firedAt, firedIn, bodyRead,
          fetchCalls, parse, md, wiz, app>>

\* the components that are idle while the stream and request calls run
xvars == <<parse, md, wiz, app>>

(***************************************************************************)
(* Bounds of the model.                                                    *)
(***************************************************************************)
MaxFrames == 2
MaxChunk == 3
MaxLines == 3

Min(S) == CHOOSE x \in S : \A y \in S : x <= y
Max(S) == CHOOSE x \in S : \A y \in S : x >= y

(***************************************************************************)
(* JavaScript values.                                                      *)
(***************************************************************************)
Undefined == [t |-> "undefined"]
Null == [t |-> "null"]
Num(n) == [t |-> "number", n |-> n]
Str(s) == [t |-> "string", s |-> s]
Obj(f) == [t |-> "object", f |-> f]
NoFields == <<>>

\* ToBoolean
Truthy(v) ==
    CASE v.t = "undefined" -> FALSE
      [] v.t = "null" -> FALSE
      [] v.t = "number" -> v.n # 0
      [] v.t = "string" -> v.s # ""
      [] OTHER -> TRUE

\* v.name (v is not null or undefined where the code reads a property)
Get(v, name) ==
    IF v.t = "object" /\ name \in DOMAIN v.f THEN v.f[name] ELSE Undefined

TypeOf(v) == IF v.t = "null" THEN "object" ELSE v.t

(***************************************************************************)
(* String operations of the stream's buffer loop, on character sequences.  *)
(* Offsets are JavaScript's (from 0).                                      *)
(***************************************************************************)
\* s.slice(a, b)
Slice(s, a, b) == SubSeq(s, a + 1, b)

\* s.slice(a)
SliceFrom(s, a) == SubSeq(s, a + 1, Len(s))

\* buffer.indexOf("\n\n")
IndexOfDelim(s) ==
    LET hits == {i \in 1..(Len(s) - 1) : s[i] = "\n" /\ s[i + 1] = "\n"}
    IN IF hits = {} THEN -1 ELSE Min(hits) - 1

IsSpace(c) == c \in {" ", "\t", "\n", "\r"}

\* s.trim()
Trim(s) ==
    LET keep == {i \in 1..Len(s) : ~IsSpace(s[i])}
    IN IF keep = {} THEN <<>> ELSE SubSeq(s, Min(keep), Max(keep))

\* line.startsWith(p)
StartsWith(s, p) == Len(s) >= Len(p) /\ SubSeq(s, 1, Len(p)) = p

\* raw.split(/\r?\n/)
RECURSIVE SplitLines(_)
SplitLines(s) ==
    LET nls == {i \in 1..Len(s) : s[i] = "\n"}
    IN IF nls = {} THEN <<s>>
       ELSE LET i == Min(nls)
                e == IF i > 1 /\ s[i - 1] = "\r" THEN i - 2 ELSE i - 1
            IN <<SubSeq(s, 1, e)>> \o SplitLines(SubSeq(s, i + 1, Len(s)))

\* dataLines.join("\n")
RECURSIVE Join(_)
Join(ls) ==
    IF ls = <<>> THEN <<>>
    ELSE IF Len(ls) = 1 THEN ls[1]
    ELSE ls[1] \o <<"\n">> \o Join(Tail(ls))

RECURSIVE Concat(_)
Concat(ss) == IF ss = <<>> THEN <<>> ELSE Head(ss) \o Concat(Tail(ss))

(***************************************************************************)
(* The wire protocol: prefixes, event kinds, payload texts.                *)
(***************************************************************************)
EVENT_PFX == <<"e", "v", "e", "n", "t", ":">>
DATA_PFX == <<"d", "a", "t", "a", ":">>
PROGRESS == <<"p", "r", "o", "g", "r", "e", "s", "s">>
COMPLETE == <<"c", "o", "m", "p", "l", "e", "t", "e">>
ERROR == <<"e", "r", "r", "o", "r">>
MESSAGE == <<"m", "e", "s", "s", "a", "g", "e">>
DELIM == <<"\n", "\n">>

\* {"pct":1}
J_PCT == <<"{", "\"", "p", "c", "t", "\"", ":", "1", "}">>
\* {"pct":"x"}
J_PCTSTR == <<"{", "\"", "p", "c", "t", "\"", ":", "\"", "x", "\"", "}">>
\* {"pct":2,"message":"m"}
J_PCTMSG == <<"{", "\"", "p", "c", "t", "\"", ":", "2", ",", "\"", "m", "e", "s",
              "s", "a", "g", "e", "\"", ":", "\"", "m", "\"", "}">>
\* {"pct":   and   1}   : one payload on two data lines
J_PCT_A == <<"{", "\"", "p", "c", "t", "\"", ":">>
J_PCT_B == <<"1", "}">>
\* {}
J_EMPTY == <<"{", "}">>
\* {"a":1}
J_RESULT == <<"{", "\"", "a", "\"", ":", "1", "}">>
\* {"message":"e"}
J_MSG == <<"{", "\"", "m", "e", "s", "s", "a", "g", "e", "\"", ":", "\"", "e", "\"", "}">>
\* {"message":"<U+00E9>"}, as text and as the bytes of its UTF-8 encoding
J_MSGU == <<"{", "\"", "m", "e", "s", "s", "a", "g", "e", "\"", ":", "\"", "U+00E9", "\"", "}">>
B_MSGU == <<"{", "\"", "m", "e", "s", "s", "a", "g", "e", "\"", ":", "\"", "C3", "A9", "\"", "}">>
\* null
J_NULL == <<"n", "u", "l", "l">>
\* {   : not JSON
J_BAD == <<"{">>

(***************************************************************************)
(* JSON.parse on the payload texts above.  Every other text the modelled   *)
(* streams can put on the data lines of one frame is not JSON.             *)
(***************************************************************************)
JSONParse(text) ==
    CASE text = J_PCT -> [ok |-> TRUE, v |-> Obj([pct |-> Num(1)])]
      [] text = J_PCT_A \o <<"\n">> \o J_PCT_B -> [ok |-> TRUE, v |-> Obj([pct |-> Num(1)])]
      [] text = J_PCTSTR -> [ok |-> TRUE, v |-> Obj([pct |-> Str("x")])]
      [] text = J_PCTMSG -> [ok |-> TRUE, v |-> Obj([pct |-> Num(2), message |-> Str("m")])]
      [] text = J_EMPTY -> [ok |-> TRUE, v |-> Obj(NoFields)]
      [] text = J_RESULT -> [ok |-> TRUE, v |-> Obj([a |-> Num(1)])]
      [] text = J_MSG -> [ok |-> TRUE, v |-> Obj([message |-> Str("e")])]
      [] text = J_MSGU -> [ok |-> TRUE, v |-> Obj([message |-> Str("U+00E9")])]
      [] text = J_NULL -> [ok |-> TRUE, v |-> Null]
      [] OTHER -> [ok |-> FALSE, v |-> Undefined]

(***************************************************************************)
(* decoder.decode(value, {stream: true}): UTF-8 bytes to text.  An ASCII   *)
(* byte is its character; C3 A9 is one two-byte character.  A lead byte at *)
(* the end of a chunk is kept for the next call.                           *)
(***************************************************************************)
DecodeBytes(bs, keep) ==
    LET n == Len(bs)
        \* what the byte at i turns into ("" when it yields no character)
        At(i) ==
            IF bs[i] = "C3" THEN
                IF i = n THEN (IF keep THEN "" ELSE "U+FFFD")
                ELSE IF bs[i + 1] = "A9" THEN "U+00E9" ELSE "U+FFFD"
            ELSE IF bs[i] = "A9" THEN
                IF i > 1 /\ bs[i - 1] = "C3" THEN "" ELSE "U+FFFD"
            ELSE bs[i]
        IsChar(c) == c # ""
    IN [text |-> SelectSeq([i \in 1..n |-> At(i)], IsChar),
        pending |-> IF keep /\ n > 0 /\ bs[n] = "C3" THEN <<"C3">> ELSE <<>>]

\* A decoder without {stream: true}: every chunk is decoded on its own.
DecodeAlone(pending, value) == DecodeBytes(value, FALSE)

Decode(pending, value) == DecodeBytes(pending \o value, TRUE)

(***************************************************************************)
(* The streams the server may send.  A stream is a concatenation of        *)
(* frames; the transport hands it over in chunks cut at any offset, and    *)
(* may close or fail at any offset.                                        *)
(***************************************************************************)
Frame(kind, json) == EVENT_PFX \o kind \o <<"\n">> \o DATA_PFX \o json \o DELIM

F_PROGRESS == Frame(PROGRESS, J_PCT)
F_COMPLETE == Frame(COMPLETE, J_RESULT)
F_ERROR == Frame(ERROR, J_MSG)
F_BADJSON == Frame(PROGRESS, J_BAD)
\* a progress frame with pct 2 and a message
F_PROGRESS2 == Frame(PROGRESS, J_PCTMSG)

\* event: progress \r\ndata: {"pct":1} \n\n
X_SPACED == EVENT_PFX \o <<" ">> \o PROGRESS \o <<" ", "\r", "\n">> \o DATA_PFX
            \o <<" ">> \o J_PCT \o <<" ">> \o DELIM
\* data:{"pct":\ndata:1}\nevent:progress\n\n
X_MULTI == DATA_PFX \o J_PCT_A \o <<"\n">> \o DATA_PFX \o J_PCT_B \o <<"\n">>
           \o EVENT_PFX \o PROGRESS \o DELIM
\* :k\nid:1\nevent:progress\ndata:{"pct":2,"message":"m"}\n\n
X_COMMENT == <<":", "k", "\n", "i", "d", ":", "1", "\n">> \o Frame(PROGRESS, J_PCTMSG)
X_NOPCT == Frame(PROGRESS, J_EMPTY)
X_STRPCT == Frame(PROGRESS, J_PCTSTR)
X_NULLCOMPLETE == Frame(COMPLETE, J_NULL)
X_NULLPROGRESS == Frame(PROGRESS, J_NULL)
X_NULLERROR == Frame(ERROR, J_NULL)
\* event:complete\n\n
X_NODATA == EVENT_PFX \o COMPLETE \o DELIM
X_ERRNOMSG == Frame(ERROR, J_EMPTY)
X_UTF8 == Frame(ERROR, B_MSGU)
X_BADCOMPLETE == Frame(COMPLETE, J_BAD)
\* data:{\n\n
X_BADDEFAULT == DATA_PFX \o J_BAD \o DELIM
\* data:{}\n\n
X_DEFAULT == DATA_PFX \o J_EMPTY \o DELIM
X_UNKNOWN == Frame(<<"p", "i", "n", "g">>, J_EMPTY)
\* a stray newline before the first frame
X_NEWLINE == <<"\n">>

CoreFrames == {F_PROGRESS, F_COMPLETE, F_ERROR, F_BADJSON}

OtherFrames ==
    {X_SPACED, X_MULTI, X_COMMENT, X_NOPCT, X_STRPCT, X_NULLCOMPLETE, X_NODATA,
     X_ERRNOMSG, X_UTF8, X_BADCOMPLETE, X_BADDEFAULT, X_DEFAULT, X_UNKNOWN, X_NEWLINE,
     X_NULLPROGRESS, X_NULLERROR}

SeqsUpTo(S, n) == UNION {[1..k -> S] : k \in 0..n}

\* A run of progress frames closed by a complete frame.
ProgressRuns ==
    {Concat(ps) \o F_COMPLETE : ps \in SeqsUpTo({F_PROGRESS, F_PROGRESS2}, MaxFrames)}

Streams ==
    {Concat(fs) : fs \in SeqsUpTo(CoreFrames, MaxFrames)}
    \cup {x \o Concat(fs) : x \in OtherFrames, fs \in SeqsUpTo(CoreFrames, MaxFrames - 1)}
    \cup ProgressRuns

(***************************************************************************)
(* The stream session: trainModelStream and predictStream.  The two differ *)
(* in their messages only.                                                 *)
(***************************************************************************)
Pending == [kind |-> "pending"]
Success(v) == [kind |-> "success", payload |-> v]
Failure(e) == [kind |-> "failure", err |-> e]
Err(name, message) == [name |-> name, message |-> message]

InitFailedMessage(o) ==
    IF o = "train" THEN "Failed to start training stream."
    ELSE "Failed to start prediction stream."

EndedMessage(o) ==
    IF o = "train" THEN "Training stream ended unexpectedly."
    ELSE "Prediction stream ended unexpectedly."

FailedMessage(o) == IF o = "train" THEN "Training failed." ELSE "Prediction failed."

\* The closure of one call: buffer, the decoder, settled, the promise, the
\* caller's onProgress (the pct values on which it throws; none here), and
\* what the session has done so far (the resolve/reject calls made, the
\* onProgress calls made, the frames taken off the buffer).
NewSession ==
    [buffer |-> <<>>, pending |-> <<>>, settled |-> FALSE, outcome |-> Pending,
     nSettle |-> 0, calls |-> <<>>, frames |-> <<>>, throwsOn |-> {}]

\* What a throwing onProgress throws.
CallbackError == Err("Error", "callback failed")

safeResolve(s, data) ==
    IF s.settled THEN s
    ELSE [s EXCEPT !.settled = TRUE, !.outcome = Success(data), !.nSettle = @ + 1]

\* A reject without the settled guard.
bareReject(s, err) ==
    [s EXCEPT !.settled = TRUE, !.outcome = Failure(err), !.nSettle = @ + 1]

safeReject(s, err) ==
    IF s.settled THEN s
    ELSE [s EXCEPT !.settled = TRUE, !.outcome = Failure(err), !.nSettle = @ + 1]

\* An event kind that defaults to "complete".
EventDefaultComplete(lines) ==
    LET ev == {i \in 1..Len(lines) : StartsWith(lines[i], EVENT_PFX)}
    IN IF ev = {} THEN COMPLETE ELSE Trim(SliceFrom(lines[Max(ev)], 6))

\* The event kind of a frame: the last event: line, else "message".
EventOf(lines) ==
    LET ev == {i \in 1..Len(lines) : StartsWith(lines[i], EVENT_PFX)}
    IN IF ev = {} THEN MESSAGE ELSE Trim(SliceFrom(lines[Max(ev)], 6))

\* A frame parse that takes every line that is not an event: line as data.
DataLinesAny(lines) ==
    LET IsData(l) == ~StartsWith(l, EVENT_PFX)
        ds == SelectSeq(lines, IsData)
    IN [i \in 1..Len(ds) |-> Trim(SliceFrom(ds[i], 5))]

\* The data lines of a frame, in order.
DataLinesOf(lines) ==
    LET IsData(l) == ~StartsWith(l, EVENT_PFX) /\ StartsWith(l, DATA_PFX)
        ds == SelectSeq(lines, IsData)
    IN [i \in 1..Len(ds) |-> Trim(SliceFrom(ds[i], 5))]

DataStrOf(raw) == Join(DataLinesOf(SplitLines(raw)))

\* const data = dataStr ? JSON.parse(dataStr) : null, when JSON.parse throws
SyntaxErr == Err("SyntaxError", "Unexpected token")

\* A loop that skips a frame it cannot parse.
SkipFrame(s) == [s |-> s, ctl |-> "next", thrown |-> Null]

OnParseError(s) == [s |-> s, ctl |-> "throw", thrown |-> SyntaxErr]

\* A progress branch that records the newest call first.
OnProgressFirst(s, data) ==
    [s |-> [s EXCEPT !.calls = <<<<Get(data, "pct"), Get(data, "message")>>>> \o @],
     ctl |-> "next", thrown |-> Null]

\* onProgress?.(data.pct, data.message): the call returns, or throws
OnProgress(s, data) ==
    LET pct == Get(data, "pct")
        s1 == [s EXCEPT !.calls = Append(@, <<pct, Get(data, "message")>>)]
    IN IF pct.t = "number" /\ pct.n \in s.throwsOn
       THEN [s |-> s1, ctl |-> "throw", thrown |-> CallbackError]
       ELSE [s |-> s1, ctl |-> "next", thrown |-> Null]

\* A complete branch that calls resolve(data) itself and goes on with the loop.
OnCompleteBare(s, data) ==
    [s |-> [s EXCEPT !.outcome = Success(data), !.nSettle = @ + 1],
     ctl |-> "next", thrown |-> Null]

\* safeResolve(data); return
OnComplete(s, data) == [s |-> safeResolve(s, data), ctl |-> "return", thrown |-> Null]

\* An error branch that rejects and goes on with the loop.
OnErrorGoOn(o, s, data) ==
    [s |-> safeReject(s, Err("Error", FailedMessage(o))), ctl |-> "next", thrown |-> Null]

\* safeReject(new Error(data.message || "... failed.")); return
OnError(o, s, data) ==
    LET m == Get(data, "message")
    IN [s |-> safeReject(s, Err("Error", IF Truthy(m) THEN m.s ELSE FailedMessage(o))),
        ctl |-> "return", thrown |-> Null]

\* A dispatch that takes every progress payload, without the typeof test.
DispatchLoose(o, s, raw) ==
    LET lines == SplitLines(raw)
        event == EventOf(lines)
        dataStr == Join(DataLinesOf(lines))
        parsed == IF dataStr # <<>> THEN JSONParse(dataStr) ELSE [ok |-> TRUE, v |-> Null]
        data == parsed.v
        s1 == [s EXCEPT !.frames = Append(@, raw)]
    IN IF ~parsed.ok THEN OnParseError(s1)
       ELSE IF event = PROGRESS /\ Truthy(data) THEN OnProgress(s1, data)
       ELSE IF event = COMPLETE /\ Truthy(data) THEN OnComplete(s1, data)
       ELSE IF event = ERROR /\ Truthy(data) THEN OnError(o, s1, data)
       ELSE [s |-> s1, ctl |-> "next", thrown |-> Null]

\* One frame: parse it and dispatch by event kind.  ctl says how the
\* buffer loop goes on: "next", "return", or "throw" (with the exception).
DispatchFrame(o, s, raw) ==
    LET lines == SplitLines(raw)
        event == EventOf(lines)
        dataStr == Join(DataLinesOf(lines))
        parsed == IF dataStr # <<>> THEN JSONParse(dataStr) ELSE [ok |-> TRUE, v |-> Null]
        data == parsed.v
        s1 == [s EXCEPT !.frames = Append(@, raw)]
    IN IF ~parsed.ok THEN OnParseError(s1)
       ELSE IF event = PROGRESS /\ Truthy(data) /\ TypeOf(Get(data, "pct")) = "number"
            THEN OnProgress(s1, data)
       ELSE IF event = COMPLETE /\ Truthy(data) THEN OnComplete(s1, data)
       ELSE IF event = ERROR /\ Truthy(data) THEN OnError(o, s1, data)
       ELSE [s |-> s1, ctl |-> "next", thrown |-> Null]

\* while (idx >= 0) { ... }
RECURSIVE FrameLoop(_, _)
FrameLoop(o, s) ==
    LET idx == IndexOfDelim(s.buffer)
    IN IF idx < 0 THEN [s |-> s, ctl |-> "pump", thrown |-> Null]
       ELSE LET raw == Trim(Slice(s.buffer, 0, idx))
                s1 == [s EXCEPT !.buffer = SliceFrom(@, idx + 2)]
                r == IF raw # <<>> THEN DispatchFrame(o, s1, raw)
                     ELSE [s |-> s1, ctl |-> "next", thrown |-> Null]
            IN IF r.ctl = "next" THEN FrameLoop(o, r.s) ELSE r

\* A session that keeps only the newest chunk in the buffer.
ReplaceBuffer(s, value) ==
    LET d == Decode(s.pending, value)
    IN [s EXCEPT !.buffer = d.text, !.pending = d.pending]

\* buffer += decoder.decode(value, { stream: true })
AppendChunk(s, value) ==
    LET d == Decode(s.pending, value)
    IN [s EXCEPT !.buffer = @ \o d.text, !.pending = d.pending]

\* A session that dispatches what is left in the buffer at end-of-stream.
OnDoneFlush(o, s) ==
    LET raw == Trim(s.buffer)
        r == DispatchFrame(o, [s EXCEPT !.buffer = <<>>], raw)
    IN IF raw = <<>> THEN safeReject(s, Err("Error", EndedMessage(o)))
       ELSE IF r.ctl = "throw" THEN safeReject(r.s, r.thrown)
       ELSE safeReject(r.s, Err("Error", EndedMessage(o)))

\* A session that takes end-of-stream for completion.
OnDoneResolve(o, s) == safeResolve(s, Null)

\* An end of stream that only trainModelStream treats as a failure.
OnDoneTrainOnly(o, s) ==
    IF o = "train" THEN safeReject(s, Err("Error", EndedMessage(o)))
    ELSE safeResolve(s, Null)

\* if (done) { safeReject(new Error("... stream ended unexpectedly.")); return }
OnDone(o, s) == safeReject(s, Err("Error", EndedMessage(o)))

\* A then-callback with no catch behind it: an exception leaves the promise
\* as it is.
OnReadNoCatch(o, s, result) ==
    IF result.t = "done" THEN [s |-> OnDone(o, s), again |-> FALSE]
    ELSE
        LET r == FrameLoop(o, AppendChunk(s, result.value))
        IN CASE r.ctl = "pump" -> [s |-> r.s, again |-> TRUE]
             [] OTHER -> [s |-> r.s, again |-> FALSE]

\* The then-callback of reader.read() with the catch behind it: the session
\* after it, and whether pump() was called again.
OnRead(o, s, result) ==
    IF result.t = "done" THEN [s |-> OnDone(o, s), again |-> FALSE]
    ELSE
        LET r == FrameLoop(o, AppendChunk(s, result.value))
        IN CASE r.ctl = "pump" -> [s |-> r.s, again |-> TRUE]
             [] r.ctl = "return" -> [s |-> r.s, again |-> FALSE]
             [] OTHER -> [s |-> safeReject(r.s, r.thrown), again |-> FALSE]

(***************************************************************************)
(* The error normalizer (utils/errors.ts).                                 *)
(***************************************************************************)
tryParseApiError(payload) ==
    IF ~Truthy(payload) \/ TypeOf(payload) # "object" THEN Null
    ELSE IF /\ TypeOf(Get(payload, "message")) = "string"
            /\ TypeOf(Get(payload, "code")) = "string"
            /\ TypeOf(Get(payload, "trace_id")) = "string"
         THEN Obj([message |-> Get(payload, "message"), code |-> Get(payload, "code"),
                   trace_id |-> Get(payload, "trace_id"),
                   details |-> Get(payload, "details")])
         ELSE Null

\* A table with one message for every status.
GenericFallback(status) == "Something went wrong. Please try again."

StatusFallback(status) ==
    IF status = 404 THEN "Not found."
    ELSE IF status = 408 THEN "Request timed out. Please try again."
    ELSE IF status = 413 THEN "File is too large. Please upload a smaller file."
    ELSE IF status = 422 THEN "Invalid input. Please check the form and try again."
    ELSE IF status # 0 /\ status >= 500 THEN "Server error. Please try again later."
    ELSE "Something went wrong. Please try again."

\* A normalizer that never looks at the body.
FallbackOnly(apiErr, status) == StatusFallback(status)

toUserErrorMessage(apiErr, status) ==
    IF Truthy(apiErr) /\ Truthy(Get(apiErr, "message")) THEN Get(apiErr, "message").s
    ELSE StatusFallback(status)

(***************************************************************************)
(* Response bodies, and JSON.parse on them.                                *)
(***************************************************************************)
\* {"message":"bad file","code":"E1","trace_id":"t1"}
BODY_STRUCTURED == "{\"message\":\"bad file\",\"code\":\"E1\",\"trace_id\":\"t1\"}"
\* the same with details
BODY_DETAILS == "{\"message\":\"bad row\",\"code\":\"E2\",\"trace_id\":\"t2\",\"details\":\"row 3\"}"
\* the structured shape with an empty message
BODY_NOTEXT == "{\"message\":\"\",\"code\":\"E3\",\"trace_id\":\"t3\"}"
\* code missing
BODY_NOCODE == "{\"message\":\"bad file\",\"trace_id\":\"t1\"}"
\* message not a string
BODY_NUMMSG == "{\"message\":5,\"code\":\"E1\",\"trace_id\":\"t1\"}"
BODY_NULL == "null"
BODY_RESULT == "{\"status\":\"ok\"}"
BODY_TEXT == "upstream unavailable"

BodyJSON(body) ==
    CASE body = BODY_STRUCTURED ->
            [ok |-> TRUE, v |-> Obj([message |-> Str("bad file"), code |-> Str("E1"),
                                     trace_id |-> Str("t1")])]
      [] body = BODY_DETAILS ->
            [ok |-> TRUE, v |-> Obj([message |-> Str("bad row"), code |-> Str("E2"),
                                     trace_id |-> Str("t2"), details |-> Str("row 3")])]
      [] body = BODY_NOTEXT ->
            [ok |-> TRUE, v |-> Obj([message |-> Str(""), code |-> Str("E3"),
                                     trace_id |-> Str("t3")])]
      [] body = BODY_NOCODE ->
            [ok |-> TRUE, v |-> Obj([message |-> Str("bad file"), trace_id |-> Str("t1")])]
      [] body = BODY_NUMMSG ->
            [ok |-> TRUE, v |-> Obj([message |-> Num(5), code |-> Str("E1"),
                                     trace_id |-> Str("t1")])]
      [] body = BODY_NULL -> [ok |-> TRUE, v |-> Null]
      [] body = BODY_RESULT -> [ok |-> TRUE, v |-> Obj([status |-> Str("ok")])]
      [] OTHER -> [ok |-> FALSE, v |-> Undefined]

Bodies ==
    {BODY_STRUCTURED, BODY_DETAILS, BODY_NOTEXT, BODY_NOCODE, BODY_NUMMSG, BODY_NULL,
     BODY_RESULT, BODY_TEXT, ""}

IsOk(status) == status >= 200 /\ status <= 299

(***************************************************************************)
(* HttpClient.request (services/http.ts) and the configuration it reads.   *)
(***************************************************************************)
API_TIMEOUT_DEFAULT == 30000

\* readNumber(v, fallback): Number(v) when finite and > 0, else the fallback
readNumber(v, fallback) == IF v.t = "number" /\ v.n > 0 THEN v.n ELSE fallback

\* env.API_TIMEOUT_MS
API_TIMEOUT_MS(envValue) == readNumber(envValue, API_TIMEOUT_DEFAULT)

\* opts.timeoutMs ?? env.API_TIMEOUT_MS
Delay(opts) ==
    IF opts.timeoutMs.t \in {"undefined", "null"} THEN API_TIMEOUT_MS(opts.envTimeout)
    ELSE opts.timeoutMs.n

HttpErr(name, message, status, apiErr) ==
    [name |-> name, message |-> message, status |-> status,
     code |-> Get(apiErr, "code"), traceId |-> Get(apiErr, "trace_id"),
     details |-> Get(apiErr, "details")]

TimeoutError == HttpErr("Error", "Request timed out. Please try again.", Num(408), Null)
AbortError == HttpErr("AbortError", "The operation was aborted.", Undefined, Null)
NetworkError == HttpErr("TypeError", "Failed to fetch", Undefined, Null)
SyntaxError == HttpErr("SyntaxError", "Unexpected token", Undefined, Null)

\* catch (e) { ... }: what request throws for e
Catch(e) == IF e.name = "AbortError" THEN TimeoutError ELSE e

\* if (!res.ok) { ... throw err }: the error for a non-success response whose
\* body read ended as `how`.  The inner catch turns any failure of the read
\* into a null payload.
StatusError(r, how) ==
    LET parsed == BodyJSON(r.body)
        payload == IF how # "read" THEN Null
                   ELSE IF r.isJson THEN (IF parsed.ok THEN parsed.v ELSE Null)
                   ELSE Str(r.body)
        apiErr == tryParseApiError(payload)
    IN HttpErr("Error", toUserErrorMessage(apiErr, r.status), Num(r.status), apiErr)

\* What request returns or throws once the body read of response r ended
\* as `how`: "read", "aborted" (AbortError) or "failed" (network error).
AfterBody(r, how) ==
    IF ~IsOk(r.status) THEN Failure(Catch(StatusError(r, how)))
    ELSE IF how = "aborted" THEN Failure(Catch(AbortError))
    ELSE IF how = "failed" THEN Failure(Catch(NetworkError))
    ELSE IF ~r.isJson THEN Success(Str(r.body))
    ELSE IF BodyJSON(r.body).ok THEN Success(BodyJSON(r.body).v)
    ELSE Failure(Catch(SyntaxError))

\* The instants the clock shows.
Instants == {0, 1, 4999, 5000, 5001, 20000, 29999, 30000, 30001}

HttpResponses ==
    {[status |-> st, isJson |-> js, body |-> b] :
        st \in {200, 400, 404, 408, 413, 422, 500, 503}, js \in BOOLEAN, b \in Bodies}

ExtraIdle ==
    /\ parse = Null
    /\ md = Null
    /\ wiz = Null
    /\ app = Null

StreamIdle ==
    /\ op = "train"
    /\ res = Null
    /\ stream = <<>>
    /\ pos = 0
    /\ inbox = [t |-> "none"]
    /\ pc = "idle"
    /\ sess = Null
    /\ cancelled = FALSE
    /\ readAfterCancel = FALSE
    /\ other = Null

\* request(opts) has armed the timer and called fetch.
InitHttp ==
    /\ hpc = "fetch"
    /\ hopts \in [timeoutMs : {Undefined, Num(0), Num(5000)},
                  envTimeout : {Undefined, Num(0), Num(20000)}]
    /\ hres = Null
    /\ now = 0
    /\ timer = "armed"
    /\ aborted = FALSE
    /\ hout = Pending
    /\ firedAt = -1
    /\ firedIn = "none"
    /\ bodyRead = "none"
    /\ fetchCalls = 1
    /\ StreamIdle
    /\ ExtraIdle

Tick ==
    /\ hpc \in {"fetch", "body", "done"}
    /\ \E t \in Instants : t > now /\ now' = t
    /\ UNCHANGED <<hpc, hopts, hres, timer, aborted, hout, firedAt, firedIn, bodyRead,
                   fetchCalls>>
    /\ UNCHANGED <<svars, xvars>>

\* window.setTimeout(() => controller.abort(), ...) comes due
TimerFires ==
    /\ timer = "armed"
    /\ hpc # "prepare"
    /\ now >= Delay(hopts)
    /\ timer' = "fired"
    /\ aborted' = TRUE
    /\ firedAt' = now
    /\ firedIn' = hpc
    /\ UNCHANGED <<hpc, hopts, hres, now, hout, bodyRead, fetchCalls>>
    /\ UNCHANGED <<svars, xvars>>

\* finally { window.clearTimeout(timeout) }
ClearTimeout(tm) == IF tm = "armed" THEN "cleared" ELSE tm

\* await fetch(...) resolves with the response headers
FetchResponds ==
    /\ hpc = "fetch"
    /\ ~aborted
    /\ hres' \in HttpResponses
    /\ hpc' = "body"
    /\ UNCHANGED <<hopts, now, timer, aborted, hout, firedAt, firedIn, bodyRead,
                   fetchCalls>>
    /\ UNCHANGED <<svars, xvars>>

\* A request that calls fetch once more after a network failure.
FetchRejectsRetry ==
    /\ hpc = "fetch"
    /\ IF ~aborted /\ fetchCalls < 2
       THEN /\ fetchCalls' = fetchCalls + 1
            /\ UNCHANGED <<hpc, hout, timer>>
       ELSE /\ hout' = Failure(Catch(IF aborted THEN AbortError ELSE NetworkError))
            /\ hpc' = "done"
            /\ timer' = ClearTimeout(timer)
            /\ UNCHANGED fetchCalls
    /\ UNCHANGED <<hopts, hres, now, aborted, firedAt, firedIn, bodyRead>>
    /\ UNCHANGED <<svars, xvars>>

\* await fetch(...) rejects: the signal was aborted, or the network failed
FetchRejects ==
    /\ hpc = "fetch"
    /\ hout' = Failure(Catch(IF aborted THEN AbortError ELSE NetworkError))
    /\ hpc' = "done"
    /\ timer' = ClearTimeout(timer)
    /\ UNCHANGED <<hopts, hres, now, aborted, firedAt, firedIn, bodyRead, fetchCalls>>
    /\ UNCHANGED <<svars, xvars>>

\* await res.json() / res.text() settles
BodySettles ==
    /\ hpc = "body"
    /\ \E how \in (IF aborted THEN {"aborted"} ELSE {"read", "failed"}) :
        /\ bodyRead' = how
        /\ hout' = AfterBody(hres, how)
    /\ hpc' = "done"
    /\ timer' = ClearTimeout(timer)
    /\ UNCHANGED <<hopts, hres, now, aborted, firedAt, firedIn, fetchCalls>>
    /\ UNCHANGED <<svars, xvars>>

NextHttp ==
    \/ Tick
    \/ TimerFires
    \/ FetchResponds
    \/ FetchRejects
    \/ BodySettles

SpecHttp == InitHttp /\ [][NextHttp]_vars

(***************************************************************************)
(* request(opts) from its first line: the timer is armed, then the url,    *)
(* the headers and the body are prepared, then fetch is called inside the  *)
(* try block.  JSON.stringify throws a TypeError on a body that refers to  *)
(* itself.                                                                 *)
(***************************************************************************)
BODY_PLAIN == Obj([model_id |-> Str("m1")])
BODY_CYCLIC == [t |-> "cyclic"]

StringifyError ==
    HttpErr("TypeError", "Converting circular structure to JSON", Undefined, Null)

\* body = JSON.stringify(opts.body) is reached and throws
StringifyThrows(o) == o.body \notin {Undefined, Null} /\ ~o.rawBody /\ o.body = BODY_CYCLIC

InitHttpCall ==
    /\ hpc = "prepare"
    /\ hopts \in [timeoutMs : {Num(0), Num(5000)},
                  envTimeout : {Num(20000)},
                  body : {Undefined, BODY_PLAIN, BODY_CYCLIC},
                  rawBody : BOOLEAN]
    /\ hres = Null
    /\ now = 0
    /\ timer = "armed"
    /\ aborted = FALSE
    /\ hout = Pending
    /\ firedAt = -1
    /\ firedIn = "none"
    /\ bodyRead = "none"
    /\ fetchCalls = 0
    /\ StreamIdle
    /\ ExtraIdle

\* the lines between setTimeout and try, then the call of fetch
Prepare ==
    /\ hpc = "prepare"
    /\ IF StringifyThrows(hopts)
       THEN /\ hout' = Failure(StringifyError)
            /\ hpc' = "done"
            /\ UNCHANGED fetchCalls
       ELSE /\ hpc' = "fetch"
            /\ fetchCalls' = fetchCalls + 1
            /\ UNCHANGED hout
    /\ UNCHANGED <<hopts, hres, now, timer, aborted, firedAt, firedIn, bodyRead>>
    /\ UNCHANGED <<svars, xvars>>

NextHttpCall ==
    \/ Prepare
    \/ Tick
    \/ TimerFires
    \/ FetchResponds
    \/ FetchRejects
    \/ BodySettles

SpecHttpCall == InitHttpCall /\ [][NextHttpCall]_vars

(***************************************************************************)
(* The initial responses of a stream's fetch.                              *)
(***************************************************************************)
Response(status, hasBody, isJson, body, textFails) ==
    [status |-> status, hasBody |-> hasBody, isJson |-> isJson, body |-> body,
     textFails |-> textFails]

StreamingResponse == Response(200, TRUE, FALSE, "", FALSE)

RefusedResponses ==
    {Response(st, TRUE, js, b, tf) :
        st \in {404, 422, 500}, js \in BOOLEAN,
        b \in {BODY_STRUCTURED, BODY_TEXT, ""}, tf \in BOOLEAN}
    \cup {Response(204, FALSE, FALSE, "", FALSE)}

NoResult == [t |-> "none"]

HttpIdle ==
    /\ hpc = "idle"
    /\ hopts = [timeoutMs |-> Undefined]
    /\ hres = Null
    /\ now = 0
    /\ timer = "none"
    /\ aborted = FALSE
    /\ hout = Pending
    /\ firedAt = -1
    /\ firedIn = "none"
    /\ bodyRead = "none"
    /\ fetchCalls = 0

InitStream ==
    /\ op \in {"train", "predict"}
    /\ \/ res = StreamingResponse /\ stream \in Streams
       \/ res \in RefusedResponses /\ stream = <<>>
    /\ pos = 0
    /\ inbox = NoResult
    /\ pc = "fetch"
    /\ sess = NewSession
    /\ cancelled = FALSE
    /\ readAfterCancel = FALSE
    /\ other = Null
    /\ HttpIdle
    /\ ExtraIdle

FetchError == Err("TypeError", "Failed to fetch")
ReadError == Err("TypeError", "network error")

\* fetch(...) rejects: the async function rejects with the same error.
FetchFails ==
    /\ pc = "fetch"
    /\ sess' = [sess EXCEPT !.outcome = Failure(FetchError), !.nSettle = @ + 1]
    /\ pc' = "stop"
    /\ UNCHANGED <<op, res, stream, pos, inbox, cancelled, readAfterCancel>>
    /\ UNCHANGED <<other, hvars, xvars>>

\* const txt = await res.text().catch(() => "")
InitText(r) == IF r.textFails THEN "" ELSE r.body

\* throw new Error(txt || "Failed to start ... stream.")
InitError(o, r) ==
    LET txt == InitText(r)
    IN Err("Error", IF txt # "" THEN txt ELSE InitFailedMessage(o))

\* fetch(...) resolves: the init check, then the first pump().
FetchResolves ==
    /\ pc = "fetch"
    /\ IF ~IsOk(res.status) \/ ~res.hasBody
       THEN /\ sess' = [sess EXCEPT !.outcome = Failure(InitError(op, res)),
                                    !.nSettle = @ + 1]
            /\ pc' = "stop"
       ELSE /\ sess' = sess
            /\ pc' = "read"
    /\ UNCHANGED <<op, res, stream, pos, inbox, cancelled, readAfterCancel>>
    /\ UNCHANGED <<other, hvars, xvars>>

\* The chunk sizes the transport cuts: small ones, or all that is left.
ChunkSizes(left) == {n \in 1..left : n <= MaxChunk \/ n = left}

\* The transport settles the outstanding read() with the next chunk.
NetDeliver ==
    /\ pc = "read"
    /\ inbox = NoResult
    /\ \E n \in ChunkSizes(Len(stream) - pos) :
        /\ inbox' = [t |-> "chunk", value |-> SubSeq(stream, pos + 1, pos + n)]
        /\ pos' = pos + n
    /\ UNCHANGED <<op, res, stream, pc, sess, cancelled, readAfterCancel>>
    /\ UNCHANGED <<other, hvars, xvars>>

\* The transport settles the outstanding read() with end-of-stream.
NetClose ==
    /\ pc = "read"
    /\ inbox = NoResult
    /\ inbox' = [t |-> "done"]
    /\ UNCHANGED <<op, res, stream, pos, pc, sess, cancelled, readAfterCancel>>
    /\ UNCHANGED <<other, hvars, xvars>>

\* The outstanding read() rejects (network drop).
NetError ==
    /\ pc = "read"
    /\ inbox = NoResult
    /\ inbox' = [t |-> "error", err |-> ReadError]
    /\ UNCHANGED <<op, res, stream, pos, pc, sess, cancelled, readAfterCancel>>
    /\ UNCHANGED <<other, hvars, xvars>>

\* reader.read().then(({ value, done }) => { ... }).catch(...)
PumpThen ==
    /\ pc = "read"
    /\ inbox.t \in {"chunk", "done"}
    /\ LET r == OnRead(op, sess, inbox)
       IN /\ sess' = r.s
          /\ pc' = IF r.again THEN "read" ELSE "stop"
    /\ inbox' = NoResult
    /\ readAfterCancel' = (readAfterCancel \/ cancelled)
    /\ UNCHANGED <<op, res, stream, pos, cancelled>>
    /\ UNCHANGED <<other, hvars, xvars>>

\* reader.read() rejected: .catch((err) => safeReject(err))
PumpCatch ==
    /\ pc = "read"
    /\ inbox.t = "error"
    /\ sess' = safeReject(sess, inbox.err)
    /\ pc' = "stop"
    /\ inbox' = NoResult
    /\ readAfterCancel' = (readAfterCancel \/ cancelled)
    /\ UNCHANGED <<op, res, stream, pos, cancelled>>
    /\ UNCHANGED <<other, hvars, xvars>>

\* The caller abandons the call in flight.  The stream functions take no
\* signal and return no handle: nothing of the session changes.
CallerCancel ==
    /\ pc \in {"fetch", "read"}
    /\ ~cancelled
    /\ cancelled' = TRUE
    /\ UNCHANGED <<op, res, stream, pos, inbox, pc, sess, readAfterCancel>>
    /\ UNCHANGED <<other, hvars, xvars>>

NextStream ==
    \/ FetchFails
    \/ FetchResolves
    \/ NetDeliver
    \/ NetClose
    \/ NetError
    \/ PumpThen
    \/ PumpCatch
    \/ CallerCancel

SpecStream == InitStream /\ [][NextStream]_vars

\* The event loop runs a callback whose promise has settled; the network
\* owes nothing: no response, no chunk, no close.
\* PumpThen is enabled exactly when a chunk or end-of-stream waits in the
\* inbox, and every PumpThen step empties the inbox: its weak fairness is
\* that such a result does not wait forever.
PumpThenReady == pc = "read" /\ inbox.t \in {"chunk", "done"}

Fairness == WF_vars(PumpCatch) /\ []<>(~PumpThenReady)

\* The training stream on the short streams of progress and complete frames.
InitShortStream ==
    /\ InitStream
    /\ op = "train"
    /\ res = StreamingResponse
    /\ stream \in {Concat(fs) : fs \in SeqsUpTo({F_PROGRESS, F_COMPLETE}, 1)}

FairSpecStream == InitShortStream /\ [][NextStream]_vars /\ Fairness

(***************************************************************************)
(* A stream call whose onProgress callback throws on some pct values.      *)
(***************************************************************************)
InitThrowingStream ==
    /\ op \in {"train", "predict"}
    /\ res = StreamingResponse
    /\ stream \in ProgressRuns
    /\ pos = 0
    /\ inbox = NoResult
    /\ pc = "fetch"
    /\ \E on \in {{1}, {2}} : sess = [NewSession EXCEPT !.throwsOn = on]
    /\ cancelled = FALSE
    /\ readAfterCancel = FALSE
    /\ other = Null
    /\ HttpIdle
    /\ ExtraIdle

NextThrowingStream ==
    \/ FetchResolves
    \/ NetDeliver
    \/ NetClose
    \/ NetError
    \/ PumpThen
    \/ PumpCatch

SpecThrowingStream == InitThrowingStream /\ [][NextThrowingStream]_vars

(***************************************************************************)
(* The frame parse on its own: the text in front of a delimiter is         *)
(* trimmed, split into lines, and the lines give the event kind and the    *)
(* data text.  The frames are built from lines of known make.              *)
(***************************************************************************)
PING == <<"p", "i", "n", "g">>

\* A line of a frame: its prefix, the padding around its value, its value.
Line(kind, pad, val) == [kind |-> kind, pad |-> pad, val |-> val]

Lines ==
    {Line("event", p, v) : p \in {<<>>, <<" ">>}, v \in {PROGRESS, PING}}
    \cup {Line("data", p, v) : p \in {<<>>, <<" ">>}, v \in {J_PCT_A, J_PCT_B, J_EMPTY}}
    \cup {Line("data", <<>>, <<>>)}
    \cup {Line("other", <<>>, v) : v \in {<<":", "k">>, <<"i", "d", ":", "1">>}}

LineText(l) ==
    CASE l.kind = "event" -> EVENT_PFX \o l.pad \o l.val \o l.pad
      [] l.kind = "data" -> DATA_PFX \o l.pad \o l.val \o l.pad
      [] OTHER -> l.val

\* The lines with the line terminator eol between them.
RECURSIVE FrameText(_, _)
FrameText(ls, eol) ==
    IF Len(ls) = 1 THEN LineText(ls[1])
    ELSE LineText(ls[1]) \o eol \o FrameText(Tail(ls), eol)

\* const raw = buffer.slice(0, idx).trim(); ... const dataStr = dataLines.join("\n")
FrameParse(text) ==
    LET raw == Trim(text)
    IN [event |-> EventOf(SplitLines(raw)), dataStr |-> DataStrOf(raw)]

InitFrame ==
    /\ \E ls \in SeqsUpTo(Lines, MaxLines) \ {<<>>}, eol \in {<<"\n">>, <<"\r", "\n">>} :
          parse = [lines |-> ls, text |-> FrameText(ls, eol), out |-> Null]
    /\ md = Null
    /\ wiz = Null
    /\ app = Null
    /\ StreamIdle
    /\ HttpIdle

ParseFrame ==
    /\ parse # Null
    /\ parse.out = Null
    /\ parse' = [parse EXCEPT !.out = FrameParse(parse.text)]
    /\ UNCHANGED <<svars, hvars, md, wiz, app>>

NextFrame == ParseFrame

SpecFrame == InitFrame /\ [][NextFrame]_vars

(***************************************************************************)
(* api.getModelDetails: the candidate endpoints, tried in a for loop with  *)
(* one awaited request each.                                               *)
(***************************************************************************)
ModelIds == {"m1", "a/b"}

\* encodeURIComponent on the model ids above
EncodeURIComponent(id) == IF id = "a/b" THEN "a%2Fb" ELSE id

\* A template literal: the fixed text and the id put into it.
candidates(id) ==
    <<<<"/models/details/", id>>, <<"/models/", id>>, <<"/models/metadata/", id>>>>

NotAvailableMessage ==
    "Model details endpoint not available on backend. Add an endpoint like GET /models/details/{model_id}."

\* What http.request throws at a candidate, an error without message included.
DetailsErrors ==
    {HttpErr("Error", StatusFallback(404), Num(404), Null),
     HttpErr("Error", StatusFallback(500), Num(500), Null),
     TimeoutError,
     HttpErr("Error", "", Undefined, Null)}

DetailsPayloads == {Obj([model_id |-> Str("m1")]), Obj([model_id |-> Str("m2")])}

\* getModelDetails(modelId) has entered the loop and awaits the first request.
InitDetails ==
    /\ \E id \in ModelIds :
          md = [modelId |-> id, i |-> 1,
                requested |-> <<candidates(EncodeURIComponent(id))[1]>>,
                results |-> <<>>, lastErr |-> Null, pc |-> "await", out |-> Pending]
    /\ parse = Null
    /\ wiz = Null
    /\ app = Null
    /\ StreamIdle
    /\ HttpIdle

\* return await tryGetTrainResponse(path)
DetailsResponds ==
    /\ md.pc = "await"
    /\ \E data \in DetailsPayloads :
          md' = [md EXCEPT !.results = Append(@, Success(data)),
                           !.out = Success(data),
                           !.pc = "done"]
    /\ UNCHANGED <<svars, hvars, parse, wiz, app>>

\* A loop that keeps the first error it caught.
DetailsFailsKeepFirst ==
    /\ md.pc = "await"
    /\ \E e \in DetailsErrors :
        LET paths == candidates(EncodeURIComponent(md.modelId))
            err == IF md.lastErr = Null THEN e ELSE md.lastErr
        IN IF md.i < Len(paths)
           THEN md' = [md EXCEPT !.results = Append(@, Failure(e)),
                                 !.lastErr = err,
                                 !.i = @ + 1,
                                 !.requested = Append(@, paths[md.i + 1])]
           ELSE md' = [md EXCEPT !.results = Append(@, Failure(e)),
                                 !.lastErr = err,
                                 !.out = Failure(Err("Error",
                                            IF err.message # "" THEN err.message
                                            ELSE NotAvailableMessage)),
                                 !.pc = "done"]
    /\ UNCHANGED <<svars, hvars, parse, wiz, app>>

\* catch (e) { lastErr = e }, then the next candidate, or after the last one
\* throw new Error(lastErr?.message || "... not available ...")
DetailsFails ==
    /\ md.pc = "await"
    /\ \E e \in DetailsErrors :
        LET paths == candidates(EncodeURIComponent(md.modelId))
        IN IF md.i < Len(paths)
           THEN md' = [md EXCEPT !.results = Append(@, Failure(e)),
                                 !.lastErr = e,
                                 !.i = @ + 1,
                                 !.requested = Append(@, paths[md.i + 1])]
           ELSE md' = [md EXCEPT !.results = Append(@, Failure(e)),
                                 !.lastErr = e,
                                 !.out = Failure(Err("Error",
                                            IF e.message # "" THEN e.message
                                            ELSE NotAvailableMessage)),
                                 !.pc = "done"]
    /\ UNCHANGED <<svars, hvars, parse, wiz, app>>

NextDetails ==
    \/ DetailsResponds
    \/ DetailsFails

SpecDetails == InitDetails /\ [][NextDetails]_vars

(***************************************************************************)
(* The useWizard hook: its state and its actions.  Every action is called  *)
(* from the latest render, and its batch of setters is applied before the  *)
(* next action runs.  lastGoTo records the last goTo call (history).       *)
(***************************************************************************)
Steps == {"upload", "preprocess", "train", "predict", "results"}

DATASET == Obj([upload_id |-> Str("u1")])
PREPROCESS == Obj([upload_id |-> Str("u1")])
TRAIN == Obj([model_id |-> Str("m1")])
SCHEMA == Obj([model_id |-> Str("m1")])
PREDICT == Obj([prediction |-> Num(1)])

\* Math.max(0, Math.min(100, Math.round(v))), 0 when v is not finite
clampPct(v) == IF v.t # "number" THEN 0 ELSE Max({0, Min({100, v.n})})

NoGoTo == [next |-> "none", moved |-> FALSE]

WizardInitial ==
    [step |-> "upload",
     datasetInfo |-> Null, preprocessInfo |-> Null, trainInfo |-> Null,
     schemaInfo |-> Null, predictInfo |-> Null,
     trainingState |-> "idle", trainingProgress |-> 0, trainingError |-> Null,
     predictionState |-> "idle", predictionError |-> Null,
     loadingSchema |-> FALSE, fatalError |-> Null,
     lastGoTo |-> NoGoTo]

canGoPreprocess(w) == Truthy(w.datasetInfo)
canGoTrain(w) == Truthy(w.datasetInfo) /\ Truthy(w.preprocessInfo)
canGoPredict(w) == Truthy(w.trainInfo)
canGoResults(w) == Truthy(w.predictInfo)

\* A goTo that does not look at the running operations.
goToWhileRunning(w, next) ==
    IF \/ next = "preprocess" /\ ~canGoPreprocess(w)
       \/ next = "train" /\ ~canGoTrain(w)
       \/ next = "predict" /\ ~canGoPredict(w)
       \/ next = "results" /\ ~canGoResults(w)
    THEN [w EXCEPT !.lastGoTo = [next |-> next, moved |-> FALSE]]
    ELSE [w EXCEPT !.fatalError = Null, !.step = next,
                   !.lastGoTo = [next |-> next, moved |-> TRUE]]

goTo(w, next) ==
    IF \/ next = "preprocess" /\ ~canGoPreprocess(w)
       \/ next = "train" /\ ~canGoTrain(w)
       \/ next = "predict" /\ ~canGoPredict(w)
       \/ next = "results" /\ ~canGoResults(w)
       \/ w.trainingState = "running"
       \/ w.predictionState = "running"
    THEN [w EXCEPT !.lastGoTo = [next |-> next, moved |-> FALSE]]
    ELSE [w EXCEPT !.fatalError = Null, !.step = next,
                   !.lastGoTo = [next |-> next, moved |-> TRUE]]

resetLocal(w) == [WizardInitial EXCEPT !.lastGoTo = w.lastGoTo]

onUploaded(w, info) ==
    [w EXCEPT !.datasetInfo = info,
              !.preprocessInfo = Null, !.trainInfo = Null, !.schemaInfo = Null,
              !.predictInfo = Null,
              !.trainingState = "idle", !.trainingProgress = 0, !.trainingError = Null,
              !.predictionState = "idle", !.predictionError = Null,
              !.fatalError = Null, !.step = "preprocess"]

onPreprocessed(w, info) ==
    [w EXCEPT !.preprocessInfo = info,
              !.trainInfo = Null, !.schemaInfo = Null, !.predictInfo = Null,
              !.trainingState = "idle", !.trainingProgress = 0, !.trainingError = Null,
              !.predictionState = "idle", !.predictionError = Null,
              !.fatalError = Null, !.step = "train"]

onTrainingStart(w) ==
    [w EXCEPT !.fatalError = Null, !.trainingError = Null, !.trainingState = "running",
              !.trainingProgress = 0,
              !.predictInfo = Null, !.predictionState = "idle", !.predictionError = Null,
              !.step = "train"]

onTrainingProgress(w, pct) == [w EXCEPT !.trainingProgress = clampPct(pct)]

onTrainingSuccess(w, info) ==
    [w EXCEPT !.trainInfo = info, !.trainingState = "success", !.trainingProgress = 100,
              !.trainingError = Null, !.fatalError = Null, !.step = "train"]

onTrainingError(w, message) ==
    [w EXCEPT !.trainingState = "error", !.trainingError = message, !.fatalError = Null]

onPredictionStart(w) ==
    [w EXCEPT !.fatalError = Null, !.predictionError = Null, !.predictionState = "running",
              !.step = "predict"]

onPredictionSuccess(w, info) ==
    [w EXCEPT !.predictInfo = info, !.predictionState = "success",
              !.predictionError = Null, !.fatalError = Null, !.step = "results"]

onPredictionError(w, message) ==
    [w EXCEPT !.predictionState = "error", !.predictionError = message,
              !.fatalError = Null]

InitWizard ==
    /\ wiz = WizardInitial
    /\ parse = Null
    /\ md = Null
    /\ app = Null
    /\ StreamIdle
    /\ HttpIdle

\* wiz' is the state after one action of the hook
Acts(w2) == wiz' = w2 /\ UNCHANGED <<svars, hvars, parse, md, app>>

WizGoTo == \E next \in Steps : Acts(goTo(wiz, next))
WizResetLocal == Acts(resetLocal(wiz))
WizSetDatasetInfo == \E info \in {Null, DATASET} : Acts([wiz EXCEPT !.datasetInfo = info])
WizOnUploaded == Acts(onUploaded(wiz, DATASET))
WizOnPreprocessed == Acts(onPreprocessed(wiz, PREPROCESS))
WizOnTrainingStart == Acts(onTrainingStart(wiz))
WizOnTrainingProgress ==
    \E pct \in {Num(-5), Num(50), Num(150)} : Acts(onTrainingProgress(wiz, pct))
WizOnTrainingSuccess == Acts(onTrainingSuccess(wiz, TRAIN))
WizOnTrainingError == Acts(onTrainingError(wiz, Str("e")))
WizSetLoadingSchema == \E v \in BOOLEAN : Acts([wiz EXCEPT !.loadingSchema = v])
WizSetSchemaInfo == \E info \in {Null, SCHEMA} : Acts([wiz EXCEPT !.schemaInfo = info])
WizOnPredictionStart == Acts(onPredictionStart(wiz))
WizOnPredictionSuccess == Acts(onPredictionSuccess(wiz, PREDICT))
WizOnPredictionError == Acts(onPredictionError(wiz, Str("e")))
WizSetFatalError == \E m \in {Null, Str("f")} : Acts([wiz EXCEPT !.fatalError = m])

NextWizard ==
    \/ WizGoTo
    \/ WizResetLocal
    \/ WizSetDatasetInfo
    \/ WizOnUploaded
    \/ WizOnPreprocessed
    \/ WizOnTrainingStart
    \/ WizOnTrainingProgress
    \/ WizOnTrainingSuccess
    \/ WizOnTrainingError
    \/ WizSetLoadingSchema
    \/ WizSetSchemaInfo
    \/ WizOnPredictionStart
    \/ WizOnPredictionSuccess
    \/ WizOnPredictionError
    \/ WizSetFatalError

SpecWizard == InitWizard /\ [][NextWizard]_vars

(***************************************************************************)
(* The App component: its state, its handlers, the calls it has in flight  *)
(* and its two effects.  A handler runs from the latest render, so it runs *)
(* only when no effect is pending; the toaster and the progress display    *)
(* are left out.  effModelId is the modelId the schema effect last ran     *)
(* with; loads are the getModelSchema calls in flight, each with the       *)
(* `cancelled` flag of its effect closure; guarded says that the last      *)
(* step was a move of the step guard (history).                            *)
(***************************************************************************)
MaxInFlight == 1

TrainedIds == {"m1", "m2"}
PREPROCESSED == Obj([upload_id |-> Str("u1"), target_column |-> Str("churn")])
TrainResult(mid) == Obj([model_id |-> Str(mid)])
SchemaFor(mid) == Obj([model_id |-> mid])

MissingPreprocessMessage == Str("Missing preprocessing info. Please preprocess again.")
TrainingFailedMessage == Str("Training failed.")
SchemaFailedMessage == Str("Failed to load model schema.")
PredictionFailedMessage == Str("Prediction failed. Please try again.")

AppInitial ==
    [step |-> "upload",
     datasetInfo |-> Null, preprocessInfo |-> Null, trainInfo |-> Null,
     schemaInfo |-> Null, predictInfo |-> Null,
     loadingSchema |-> FALSE, fatalError |-> Null,
     trainingState |-> "idle", trainingError |-> Null,
     predictionState |-> "idle", predictionError |-> Null,
     effModelId |-> Null, loads |-> {},
     uploading |-> FALSE, preprocessing |-> FALSE,
     trainings |-> 0, predictions |-> 0, resets |-> 0,
     guarded |-> FALSE]

\* datasetInfo?.upload_id ?? null, trainInfo?.model_id ?? null
uploadId(a) == IF a.datasetInfo = Null THEN Null ELSE a.datasetInfo.f.upload_id
modelId(a) == IF a.trainInfo = Null THEN Null ELSE a.trainInfo.f.model_id

canGoToPreprocess(a) == Truthy(a.datasetInfo)
canGoToTrain(a) == Truthy(a.datasetInfo) /\ Truthy(a.preprocessInfo)
canGoToPredict(a) == Truthy(a.trainInfo)
canGoToResults(a) == Truthy(a.predictInfo)

\* the step the guard effect leaves the component on
GuardStepLoose(a) ==
    IF ~Truthy(a.datasetInfo) /\ a.step # "upload" THEN "upload"
    ELSE IF Truthy(a.datasetInfo) /\ ~Truthy(a.preprocessInfo)
            /\ a.step \notin {"upload", "preprocess"} THEN "preprocess"
    ELSE IF Truthy(a.trainInfo) /\ ~Truthy(a.predictInfo) /\ a.step = "results"
         THEN "predict"
    ELSE a.step

GuardStep(a) ==
    IF ~Truthy(a.datasetInfo) /\ a.step # "upload" THEN "upload"
    ELSE IF Truthy(a.datasetInfo) /\ ~Truthy(a.preprocessInfo)
            /\ a.step \notin {"upload", "preprocess"} THEN "preprocess"
    ELSE IF Truthy(a.preprocessInfo) /\ ~Truthy(a.trainInfo)
            /\ a.step \in {"predict", "results"} THEN "train"
    ELSE IF Truthy(a.trainInfo) /\ ~Truthy(a.predictInfo) /\ a.step = "results"
         THEN "predict"
    ELSE a.step

GuardPending(a) == GuardStep(a) # a.step
SchemaEffectPending(a) == modelId(a) # a.effModelId
Quiet(a) == ~GuardPending(a) /\ ~SchemaEffectPending(a)

\* the Stepper button of a step is disabled
StepDisabled(a, key) ==
    \/ key = "preprocess" /\ ~canGoToPreprocess(a)
    \/ key = "train" /\ ~canGoToTrain(a)
    \/ key = "predict" /\ ~canGoToPredict(a)
    \/ key = "results" /\ ~canGoToResults(a)
    \/ a.trainingState = "running"
    \/ a.predictionState = "running"

\* the child components on screen
ShowsUpload(a) == a.step = "upload"
ShowsPreprocess(a) == a.step = "preprocess" /\ Truthy(uploadId(a))
ShowsTrain(a) == a.step = "train" /\ Truthy(uploadId(a)) /\ Truthy(a.preprocessInfo)
ShowsPredict(a) == a.step = "predict" /\ Truthy(modelId(a))
ShowsResults(a) == a.step = "results" /\ Truthy(a.predictInfo)

\* a control on screen calls goTo(next)
GoToOffered(a, next) ==
    \/ ~StepDisabled(a, next)
    \/ ShowsPreprocess(a) /\ next = "upload"
    \/ ShowsTrain(a) /\ next \in {"preprocess", "predict"}
    \/ ShowsPredict(a) /\ next = "train" /\ a.predictionState # "running"
    \/ ShowsResults(a) /\ next = "predict"

AppGoToFn(a, next) ==
    LET b == [a EXCEPT !.fatalError = Null, !.predictionError = Null,
                       !.trainingError = Null]
    IN  IF \/ next = "preprocess" /\ ~canGoToPreprocess(a)
           \/ next = "train" /\ ~canGoToTrain(a)
           \/ next = "predict" /\ ~canGoToPredict(a)
           \/ next = "results" /\ ~canGoToResults(a)
        THEN b
        ELSE [b EXCEPT !.step = next]

resetAllStart(a) ==
    [a EXCEPT !.fatalError = Null, !.trainingError = Null, !.predictionError = Null,
              !.trainingState = "idle", !.predictionState = "idle",
              !.resets = @ + 1]

resetAllFinally(a) ==
    [a EXCEPT !.datasetInfo = Null, !.preprocessInfo = Null, !.trainInfo = Null,
              !.schemaInfo = Null, !.predictInfo = Null, !.step = "upload",
              !.resets = @ - 1]

startTraining(a) ==
    LET b == [a EXCEPT !.fatalError = Null, !.trainingError = Null,
                       !.predictionError = Null, !.predictInfo = Null,
                       !.predictionState = "idle"]
    IN  IF \/ ~Truthy(uploadId(a))
           \/ a.preprocessInfo = Null
           \/ ~Truthy(a.preprocessInfo.f.target_column)
        THEN [b EXCEPT !.trainingError = MissingPreprocessMessage,
                       !.trainingState = "error"]
        ELSE [b EXCEPT !.trainingState = "running", !.trainings = @ + 1]

trainingResolved(a, info) ==
    [a EXCEPT !.trainInfo = info, !.trainingState = "success", !.step = "train",
              !.trainings = @ - 1]

trainingRejected(a) ==
    [a EXCEPT !.trainingState = "error", !.trainingError = TrainingFailedMessage,
              !.trainings = @ - 1]

\* the schema effect: the cleanup of its last run, then its body
schemaEffect(a) ==
    LET old == {[l EXCEPT !.cancelled = TRUE] : l \in a.loads}
        mid == modelId(a)
    IN  IF Truthy(mid)
        THEN [a EXCEPT !.loads = old \cup {[mid |-> mid, cancelled |-> FALSE]},
                       !.loadingSchema = TRUE, !.fatalError = Null,
                       !.effModelId = mid]
        ELSE [a EXCEPT !.loads = old, !.effModelId = mid]

schemaResolved(a, l) ==
    IF l.cancelled
    THEN [a EXCEPT !.loads = @ \ {l}]
    ELSE [a EXCEPT !.loads = @ \ {l}, !.schemaInfo = SchemaFor(l.mid),
                   !.loadingSchema = FALSE]

schemaRejected(a, l) ==
    IF l.cancelled
    THEN [a EXCEPT !.loads = @ \ {l}]
    ELSE [a EXCEPT !.loads = @ \ {l}, !.schemaInfo = Null,
                   !.fatalError = SchemaFailedMessage, !.loadingSchema = FALSE]

handleUploaded(a, info) ==
    [a EXCEPT !.datasetInfo = info, !.preprocessInfo = Null, !.trainInfo = Null,
              !.schemaInfo = Null, !.predictInfo = Null,
              !.trainingState = "idle", !.trainingError = Null,
              !.predictionState = "idle", !.predictionError = Null,
              !.step = "preprocess"]

handlePreprocessed(a, info) ==
    [a EXCEPT !.preprocessInfo = info, !.trainInfo = Null,
              !.schemaInfo = Null, !.predictInfo = Null,
              !.trainingState = "idle", !.trainingError = Null,
              !.predictionState = "idle", !.predictionError = Null,
              !.step = "train"]

handlePredicted(a, info) ==
    [a EXCEPT !.predictInfo = info, !.predictionState = "success",
              !.predictionError = Null, !.step = "results"]

handlePredictionStart(a) ==
    [a EXCEPT !.predictionState = "running", !.predictionError = Null,
              !.fatalError = Null]

handlePredictionError(a, msg) ==
    [a EXCEPT !.predictionState = "error", !.predictionError = msg]

InitApp ==
    /\ app = AppInitial
    /\ parse = Null
    /\ md = Null
    /\ wiz = Null
    /\ StreamIdle
    /\ HttpIdle

\* app' is the state after a handler or a completion; guarded is cleared
Does(a2) ==
    /\ Quiet(app)
    /\ app' = [a2 EXCEPT !.guarded = FALSE]
    /\ UNCHANGED <<svars, hvars, parse, md, wiz>>

AppStepGuard ==
    /\ GuardPending(app)
    /\ app' = [app EXCEPT !.step = GuardStep(app), !.guarded = TRUE]
    /\ UNCHANGED <<svars, hvars, parse, md, wiz>>

AppSchemaEffect ==
    /\ SchemaEffectPending(app)
    /\ app' = schemaEffect(app)
    /\ UNCHANGED <<svars, hvars, parse, md, wiz>>

AppGoTo == \E next \in Steps : GoToOffered(app, next) /\ Does(AppGoToFn(app, next))

AppResetAll == app.resets < MaxInFlight /\ Does(resetAllStart(app))
AppResetDone == app.resets > 0 /\ Does(resetAllFinally(app))

\* FileUpload and DataPreprocessing disable their button while busy
AppUploadStart ==
    /\ ShowsUpload(app)
    /\ ~app.uploading
    /\ Does([app EXCEPT !.uploading = TRUE])
AppUploadDone ==
    /\ app.uploading
    /\ Does(handleUploaded([app EXCEPT !.uploading = FALSE], DATASET))
AppUploadFails == app.uploading /\ Does([app EXCEPT !.uploading = FALSE])

AppPreprocessStart ==
    /\ ShowsPreprocess(app)
    /\ ~app.preprocessing
    /\ Does([app EXCEPT !.preprocessing = TRUE])
AppPreprocessDone ==
    /\ app.preprocessing
    /\ Does(handlePreprocessed([app EXCEPT !.preprocessing = FALSE], PREPROCESSED))
AppPreprocessFails == app.preprocessing /\ Does([app EXCEPT !.preprocessing = FALSE])

AppStartTraining ==
    /\ ShowsTrain(app)
    /\ app.trainingState # "running"
    /\ app.trainings < MaxInFlight
    /\ Does(startTraining(app))
AppTrainingDone ==
    /\ app.trainings > 0
    /\ \E mid \in TrainedIds : Does(trainingResolved(app, TrainResult(mid)))
AppTrainingFails == app.trainings > 0 /\ Does(trainingRejected(app))

AppSchemaLoaded == \E l \in app.loads : Does(schemaResolved(app, l))
AppSchemaFails == \E l \in app.loads : Does(schemaRejected(app, l))

AppPredictStart ==
    /\ ShowsPredict(app)
    /\ app.schemaInfo # Null
    /\ app.predictionState # "running"
    /\ app.predictions < MaxInFlight
    /\ Does(handlePredictionStart([app EXCEPT !.predictions = @ + 1]))
AppPredictDone ==
    /\ app.predictions > 0
    /\ Does(handlePredicted([app EXCEPT !.predictions = @ - 1], PREDICT))
AppPredictFails ==
    /\ app.predictions > 0
    /\ Does(handlePredictionError([app EXCEPT !.predictions = @ - 1],
                                  PredictionFailedMessage))

NextApp ==
    \/ AppStepGuard
    \/ AppSchemaEffect
    \/ AppGoTo
    \/ AppResetAll
    \/ AppResetDone
    \/ AppUploadStart
    \/ AppUploadDone
    \/ AppUploadFails
    \/ AppPreprocessStart
    \/ AppPreprocessDone
    \/ AppPreprocessFails
    \/ AppStartTraining
    \/ AppTrainingDone
    \/ AppTrainingFails
    \/ AppSchemaLoaded
    \/ AppSchemaFails
    \/ AppPredictStart
    \/ AppPredictDone
    \/ AppPredictFails

SpecApp == InitApp /\ [][NextApp]_vars

(***************************************************************************)
(* Two stream calls in flight at once on the one thread.  The second call  *)
(* has its own response, reader, decoder, buffer and settled flag: they    *)
(* are locals of the call.  Its steps are those of the first call.         *)
(***************************************************************************)
Call(o, r, st) ==
    [op |-> o, res |-> r, stream |-> st, pos |-> 0, inbox |-> NoResult, pc |-> "fetch",
     sess |-> NewSession]

first == <<op, res, stream, pos, inbox, pc, sess, cancelled, readAfterCancel>>

OtherFetchResolves ==
    /\ other.pc = "fetch"
    /\ other' = IF ~IsOk(other.res.status) \/ ~other.res.hasBody
                THEN [other EXCEPT !.sess.outcome = Failure(InitError(other.op, other.res)),
                                   !.sess.nSettle = @ + 1,
                                   !.pc = "stop"]
                ELSE [other EXCEPT !.pc = "read"]
    /\ UNCHANGED <<first, hvars, xvars>>

OtherNetDeliver ==
    /\ other.pc = "read"
    /\ other.inbox = NoResult
    /\ \E n \in ChunkSizes(Len(other.stream) - other.pos) :
        other' = [other EXCEPT
                    !.inbox = [t |-> "chunk",
                               value |-> SubSeq(other.stream, other.pos + 1, other.pos + n)],
                    !.pos = @ + n]
    /\ UNCHANGED <<first, hvars, xvars>>

OtherNetClose ==
    /\ other.pc = "read"
    /\ other.inbox = NoResult
    /\ other' = [other EXCEPT !.inbox = [t |-> "done"]]
    /\ UNCHANGED <<first, hvars, xvars>>

OtherNetError ==
    /\ other.pc = "read"
    /\ other.inbox = NoResult
    /\ other' = [other EXCEPT !.inbox = [t |-> "error", err |-> ReadError]]
    /\ UNCHANGED <<first, hvars, xvars>>

\* Two calls that keep their text in one buffer.
OtherPumpThenShared ==
    /\ other.pc = "read"
    /\ other.inbox.t \in {"chunk", "done"}
    /\ LET r == OnRead(other.op, [other.sess EXCEPT !.buffer = sess.buffer], other.inbox)
       IN /\ other' = [other EXCEPT !.sess = r.s,
                                    !.pc = IF r.again THEN "read" ELSE "stop",
                                    !.inbox = NoResult]
          /\ sess' = [sess EXCEPT !.buffer = r.s.buffer]
    /\ UNCHANGED <<op, res, stream, pos, inbox, pc, cancelled, readAfterCancel>>
    /\ UNCHANGED <<hvars, xvars>>

OtherPumpThen ==
    /\ other.pc = "read"
    /\ other.inbox.t \in {"chunk", "done"}
    /\ LET r == OnRead(other.op, other.sess, other.inbox)
       IN other' = [other EXCEPT !.sess = r.s,
                                 !.pc = IF r.again THEN "read" ELSE "stop",
                                 !.inbox = NoResult]
    /\ UNCHANGED <<first, hvars, xvars>>

OtherPumpCatch ==
    /\ other.pc = "read"
    /\ other.inbox.t = "error"
    /\ other' = [other EXCEPT !.sess = safeReject(other.sess, other.inbox.err),
                              !.pc = "stop",
                              !.inbox = NoResult]
    /\ UNCHANGED <<first, hvars, xvars>>

InitTwoStreams ==
    /\ op = "train"
    /\ res = StreamingResponse
    /\ stream = F_PROGRESS \o F_COMPLETE
    /\ pos = 0
    /\ inbox = NoResult
    /\ pc = "fetch"
    /\ sess = NewSession
    /\ cancelled = FALSE
    /\ readAfterCancel = FALSE
    /\ other = Call("predict", StreamingResponse, F_PROGRESS2 \o F_ERROR)
    /\ HttpIdle
    /\ ExtraIdle

NextTwoStreams ==
    \/ FetchResolves
    \/ NetDeliver
    \/ NetClose
    \/ NetError
    \/ PumpThen
    \/ PumpCatch
    \/ OtherFetchResolves
    \/ OtherNetDeliver
    \/ OtherNetClose
    \/ OtherNetError
    \/ OtherPumpThen
    \/ OtherPumpCatch

SpecTwoStreams == InitTwoStreams /\ [][NextTwoStreams]_vars

(***************************************************************************)
(* What is observed of a session.                                          *)
(***************************************************************************)
Settled == sess.outcome.kind # "pending"

\* The bytes of the stream whose chunks the then-callback has handled.
Handled == SubSeq(stream, 1, pos - (IF inbox.t = "chunk" THEN Len(inbox.value) ELSE 0))

\* The frame raw carries data text that is not JSON.
Malformed(raw) == DataStrOf(raw) # <<>> /\ ~JSONParse(DataStrOf(raw)).ok

\* The frame raw is a complete event with a payload.
IsCompleteFrame(raw) ==
    /\ EventOf(SplitLines(raw)) = COMPLETE
    /\ DataStrOf(raw) # <<>>
    /\ JSONParse(DataStrOf(raw)).ok
    /\ Truthy(JSONParse(DataStrOf(raw)).v)

(***************************************************************************)
(* C1.  A stream session settles at most once and its outcome never        *)
(* changes afterwards: the session calls resolve or reject at most once,   *)
(* and no step taken once the promise is settled changes the outcome,      *)
(* whatever frames, end-of-stream or read error are still to come.         *)
(***************************************************************************)
C1_SettlesOnce ==
    /\ [](sess.nSettle <= 1)
    /\ [][Settled => (sess'.outcome = sess.outcome /\ sess'.nSettle = sess.nSettle)]_vars

\* Settled by a complete frame while another whole frame, which arrived in
\* the same chunk, waits in the buffer.
C1_Witness ==
    /\ pc = "stop"
    /\ sess.outcome.kind = "success"
    /\ IndexOfDelim(sess.buffer) >= 0

(***************************************************************************)
(* C2.  A session succeeds only if a complete frame was dispatched, and    *)
(* the then-callback that sees end-of-stream leaves the session failed     *)
(* with the "ended unexpectedly" reason.                                   *)
(***************************************************************************)
C2_NoSuccessByEOF ==
    /\ [](sess.outcome.kind = "success" =>
            \E i \in 1..Len(sess.frames) : IsCompleteFrame(sess.frames[i]))
    /\ [][(pc = "read" /\ inbox.t = "done" /\ inbox' = NoResult) =>
            (pc' = "stop" /\ sess'.outcome = Failure(Err("Error", EndedMessage(op))))]_vars

\* End-of-stream after progress frames only.
C2_Witness ==
    /\ sess.outcome = Failure(Err("Error", EndedMessage(op)))
    /\ Len(sess.calls) = MaxFrames
    /\ pos = Len(stream)

(***************************************************************************)
(* C3.  Chunking-invariance: however the transport has cut the bytes       *)
(* handled so far, the session (the frames taken off the buffer, the       *)
(* progress calls, the outcome, the text left in the buffer) is the one    *)
(* that the same bytes delivered as a single chunk produce, followed by    *)
(* the end-of-stream or read error if one was handled.                     *)
(***************************************************************************)
C3_ChunkingInvariance ==
    (pc \in {"read", "stop"} /\ res = StreamingResponse /\ sess.outcome # Failure(FetchError)) =>
        LET one == OnRead(op, NewSession, [t |-> "chunk", value |-> Handled])
        IN IF pc = "read" THEN one.again /\ sess = one.s
           ELSE \/ ~one.again /\ sess = one.s
                \/ one.again /\ sess = OnRead(op, one.s, [t |-> "done"]).s
                \/ one.again /\ sess = safeReject(one.s, ReadError)

\* Frames have been extracted, and the chunk now handed over begins with the
\* second newline of a delimiter whose first newline ends the buffer.
C3_Witness ==
    /\ pc = "read"
    /\ inbox.t = "chunk"
    /\ Head(inbox.value) = "\n"
    /\ sess.buffer # <<>>
    /\ sess.buffer[Len(sess.buffer)] = "\n"
    /\ Len(sess.frames) >= 1
    /\ Len(sess.calls) >= 1

(***************************************************************************)
(* C4.  A frame taken off the buffer whose data text is not empty and not  *)
(* JSON, whatever its event kind, fails the session: it is the last frame  *)
(* dispatched, the session has stopped, and the outcome is a failure.      *)
(***************************************************************************)
C4_MalformedFails ==
    pc \in {"read", "stop"} =>
        \A i \in 1..Len(sess.frames) :
            Malformed(sess.frames[i]) =>
                /\ i = Len(sess.frames)
                /\ pc = "stop"
                /\ sess.outcome.kind = "failure"

\* A malformed complete frame failed the session while a whole frame waits
\* behind it in the buffer.
C4_Witness ==
    /\ pc = "stop"
    /\ sess.frames # <<>>
    /\ Malformed(sess.frames[Len(sess.frames)])
    /\ EventOf(SplitLines(sess.frames[Len(sess.frames)])) = COMPLETE
    /\ IndexOfDelim(sess.buffer) >= 0
    /\ sess.outcome = Failure(SyntaxErr)

(***************************************************************************)
(* C5.  Cancellation always wins once issued: after the caller has         *)
(* cancelled a session in flight, no read result is handled any more and   *)
(* the session never settles as success.                                   *)
(***************************************************************************)
C5_CancelWins == cancelled => (~readAfterCancel /\ sess.outcome.kind # "success")

(***************************************************************************)
(* C6.  Every stream session eventually settles, for every behaviour of    *)
(* the transport: a session that has started reading settles in the end,   *)
(* also when the transport stops delivering chunks without closing.        *)
(***************************************************************************)
C6_EventuallySettles == (pc = "read") ~> Settled

(***************************************************************************)
(* C7.  In HttpClient.request, whenever the timer fires before request has *)
(* returned, the call fails with status 408 and the message "Request timed *)
(* out. Please try again.", wherever the abort lands.                      *)
(***************************************************************************)
C7_TimeoutIs408 == (hpc = "done" /\ firedIn # "none") => hout = Failure(TimeoutError)

(***************************************************************************)
(* C8.  In HttpClient.request, timeout and natural completion exclude each *)
(* other and the first wins: the timer never fires before its delay has    *)
(* elapsed; when request finishes before the timer fires, the caller gets  *)
(* the natural outcome and the timer is cleared without having aborted     *)
(* anything; when the timer fires first, the caller gets Timeout.          *)
(***************************************************************************)
NaturalOutcome ==
    IF hres = Null THEN Failure(NetworkError) ELSE AfterBody(hres, bodyRead)

C8_FirstWins ==
    /\ firedAt # -1 => firedAt >= Delay(hopts)
    /\ (hpc = "done" /\ firedIn = "none") =>
            (hout = NaturalOutcome /\ ~aborted /\ timer = "cleared")
    /\ (hpc = "done" /\ firedIn # "none") => hout = Failure(TimeoutError)

(***************************************************************************)
(* C9.  When the initial response of a streaming call has a non-success    *)
(* status or no body, the session fails at once, with no chunk read and no *)
(* progress call, and its message is the one the request executor's        *)
(* normalization gives for the same status and body.                       *)
(***************************************************************************)
C9_InitFailureNormalized ==
    (pc = "stop" /\ (~IsOk(res.status) \/ ~res.hasBody) /\ sess.outcome # Failure(FetchError)) =>
        /\ pos = 0
        /\ sess.calls = <<>>
        /\ sess.frames = <<>>
        /\ sess.outcome.kind = "failure"
        /\ sess.outcome.err.message =
              StatusError(res, IF res.textFails THEN "failed" ELSE "read").message

(***************************************************************************)
(* C10.  In HttpClient.request, for every non-success response whose body  *)
(* is an object with string message, code and trace_id, the thrown error's *)
(* message is the body's message, and the error carries the status and the *)
(* body's code, trace_id and details.                                      *)
(***************************************************************************)
IsStructured(body) ==
    /\ BodyJSON(body).ok
    /\ BodyJSON(body).v.t = "object"
    /\ \A k \in {"message", "code", "trace_id"} : Get(BodyJSON(body).v, k).t = "string"

CarriesBody(out, r) ==
    LET b == BodyJSON(r.body).v
    IN /\ out.kind = "failure"
       /\ out.err.message = Get(b, "message").s
       /\ out.err.status = Num(r.status)
       /\ out.err.code = Get(b, "code")
       /\ out.err.traceId = Get(b, "trace_id")
       /\ out.err.details = Get(b, "details")

\* as claimed
C10_StructuredMessageWins ==
    (hpc = "done" /\ hres # Null /\ ~IsOk(hres.status) /\ IsStructured(hres.body)) =>
        CarriesBody(hout, hres)

\* as amended: the response declares JSON, its body was read to the end, and
\* the message is not empty
C10_StructuredMessageWinsAmended ==
    (/\ hpc = "done" /\ hres # Null /\ ~IsOk(hres.status) /\ IsStructured(hres.body)
     /\ hres.isJson
     /\ bodyRead = "read"
     /\ Get(BodyJSON(hres.body).v, "message").s # "") =>
        CarriesBody(hout, hres)

C10_Witness ==
    /\ hpc = "done"
    /\ hres # Null
    /\ hres = [status |-> 422, isJson |-> TRUE, body |-> BODY_DETAILS]
    /\ bodyRead = "read"
    /\ hout.err.message = "bad row"
    /\ hout.err.details = Str("row 3")

(***************************************************************************)
(* C11.  In HttpClient.request, the error of a non-success response has    *)
(* the fallback message of its status exactly when no structured error     *)
(* body is present, and the fallback depends on the status alone: 404,     *)
(* 408, 413 and 422 have their own messages, every status from 500 on has  *)
(* the server-error message, every other status the generic one.           *)
(***************************************************************************)
UsesFallback == hout.err.message = StatusFallback(hres.status)

\* What request got from the body: a structured error with a message to show.
StructuredObtained ==
    /\ bodyRead = "read"
    /\ hres.isJson
    /\ IsStructured(hres.body)
    /\ Get(BodyJSON(hres.body).v, "message").s # ""

FallbackByStatusAlone ==
    LET own == {404, 408, 413, 422}
        all == {r.status : r \in HttpResponses}
    IN /\ \A a, b \in own \cup {400, 500} : a # b => StatusFallback(a) # StatusFallback(b)
       /\ \A st \in all : st >= 500 => StatusFallback(st) = StatusFallback(500)
       /\ \A st \in all : (st < 500 /\ st \notin own) => StatusFallback(st) = StatusFallback(400)

IsPrefix(a, b) == Len(a) <= Len(b) /\ a = SubSeq(b, 1, Len(a))

\* The (pct, message) a progress frame of a run carries.
ArgsOf(frame) ==
    IF frame = F_PROGRESS THEN <<Num(1), Undefined>> ELSE <<Num(2), Str("m")>>

\* The frame as the buffer loop hands it on: without the delimiter.
RawOf(frame) == SubSeq(frame, 1, Len(frame) - 2)

C12_ProgressInOrder ==
    (pc \in {"read", "stop"} /\ sess.outcome # Failure(FetchError)) =>
        \A ps \in SeqsUpTo({F_PROGRESS, F_PROGRESS2}, MaxFrames) :
            stream = Concat(ps) \o F_COMPLETE =>
                LET n == Len(ps)
                    calls == [i \in 1..n |-> ArgsOf(ps[i])]
                    raws == [i \in 1..(n + 1) |->
                                IF i <= n THEN RawOf(ps[i]) ELSE RawOf(F_COMPLETE)]
                    result == Obj([a |-> Num(1)])
                IN /\ IsPrefix(sess.calls, calls)
                   /\ IsPrefix(sess.frames, raws)
                   /\ Len(sess.calls) = Min({n, Len(sess.frames)})
                   /\ sess.outcome.kind = "success" =>
                        (sess.calls = calls /\ sess.outcome = Success(result))
                   /\ Handled = stream =>
                        (sess.calls = calls /\ sess.outcome = Success(result)
                         /\ pc = "stop")

\* Two different progress frames and the complete frame, all handled.
C12_Witness ==
    /\ stream = F_PROGRESS2 \o F_PROGRESS \o F_COMPLETE
    /\ pc = "stop"
    /\ sess.calls = <<<<Num(2), Str("m")>>, <<Num(1), Undefined>>>>
    /\ sess.outcome = Success(Obj([a |-> Num(1)]))
    /\ sess.buffer = <<>>

(***************************************************************************)
(* C13.  The progress callback is never called after the session has       *)
(* settled: every call belongs to a progress frame dispatched before the   *)
(* frame that settled the session, no frame is dispatched after that one,  *)
(* and no step taken once the session is settled adds a call.              *)
(***************************************************************************)
\* The frame raw is a progress event with a numeric pct.
IsProgressFrame(raw) ==
    /\ EventOf(SplitLines(raw)) = PROGRESS
    /\ DataStrOf(raw) # <<>>
    /\ JSONParse(DataStrOf(raw)).ok
    /\ Truthy(JSONParse(DataStrOf(raw)).v)
    /\ TypeOf(Get(JSONParse(DataStrOf(raw)).v, "pct")) = "number"

\* The frame raw is an error event with a payload.
IsErrorFrame(raw) ==
    /\ EventOf(SplitLines(raw)) = ERROR
    /\ DataStrOf(raw) # <<>>
    /\ JSONParse(DataStrOf(raw)).ok
    /\ Truthy(JSONParse(DataStrOf(raw)).v)

IsTerminalFrame(raw) == Malformed(raw) \/ IsCompleteFrame(raw) \/ IsErrorFrame(raw)

C13_NoProgressAfterSettle ==
    /\ [](pc \in {"read", "stop"} =>
            /\ \A i, j \in 1..Len(sess.frames) :
                  (i < j /\ IsTerminalFrame(sess.frames[i])) =>
                      ~IsProgressFrame(sess.frames[j])
            /\ Len(sess.calls) =
                  Cardinality({i \in 1..Len(sess.frames) : IsProgressFrame(sess.frames[i])}))
    /\ [][Settled => sess'.calls = sess.calls]_vars

\* An error frame settled the session in the chunk that also brought a
\* whole progress frame: the frame is left in the buffer, no call was made.
C13_Witness ==
    /\ stream = F_ERROR \o F_PROGRESS
    /\ pc = "stop"
    /\ sess.outcome.kind = "failure"
    /\ sess.buffer = F_PROGRESS
    /\ sess.calls = <<>>

(***************************************************************************)
(* C14.  A progress frame without a numeric pct (pct missing, pct a        *)
(* string, a null payload) leaves the session unchanged: apart from the    *)
(* frame being taken off the buffer, the session after it and the frames   *)
(* that follow is the session the following bytes alone produce: the same  *)
(* calls, outcome and buffer.                                              *)
(***************************************************************************)
NoPctFrames == {X_NOPCT, X_STRPCT, X_NULLPROGRESS}

\* Session a is session b with the frame x dispatched first and ignored.
SameBut(x, a, b) ==
    /\ a.calls = b.calls
    /\ a.outcome = b.outcome
    /\ a.settled = b.settled
    /\ a.nSettle = b.nSettle
    /\ a.buffer = b.buffer
    /\ a.frames = <<RawOf(x)>> \o b.frames

C14_NoPctIgnored ==
    (pc \in {"read", "stop"} /\ sess.outcome # Failure(FetchError)) =>
        \A x \in NoPctFrames :
            (IsPrefix(x, stream) /\ Len(Handled) >= Len(x)) =>
                LET rest == SubSeq(Handled, Len(x) + 1, Len(Handled))
                    one == OnRead(op, NewSession, [t |-> "chunk", value |-> rest])
                IN IF pc = "read" THEN one.again /\ SameBut(x, sess, one.s)
                   ELSE \/ ~one.again /\ SameBut(x, sess, one.s)
                        \/ one.again /\ SameBut(x, sess, OnDone(op, one.s))
                        \/ one.again /\ SameBut(x, sess, safeReject(one.s, ReadError))

\* A progress frame with a string pct was dispatched, then one with pct 1:
\* one call, for the second, and the session goes on reading.
C14_Witness ==
    /\ stream = X_STRPCT \o F_PROGRESS
    /\ pc = "read"
    /\ sess.frames = <<RawOf(X_STRPCT), RawOf(F_PROGRESS)>>
    /\ sess.calls = <<<<Num(1), Undefined>>>>
    /\ ~Settled

(***************************************************************************)
(* C15.  Every complete frame dispatched is terminal, whatever its         *)
(* payload: it is the last frame dispatched, the session has stopped       *)
(* reading, and the outcome is success with the frame's payload (null for  *)
(* empty data text).                                                       *)
(***************************************************************************)
\* The payload of a frame whose data text is empty or JSON.
PayloadOf(raw) == IF DataStrOf(raw) = <<>> THEN Null ELSE JSONParse(DataStrOf(raw)).v

C15_CompleteTerminal ==
    pc \in {"read", "stop"} =>
        \A i \in 1..Len(sess.frames) :
            (EventOf(SplitLines(sess.frames[i])) = COMPLETE /\ ~Malformed(sess.frames[i])) =>
                /\ i = Len(sess.frames)
                /\ pc = "stop"
                /\ sess.outcome = Success(PayloadOf(sess.frames[i]))

(***************************************************************************)
(* C16.  Every error frame dispatched is terminal: it is the last frame    *)
(* dispatched, the session has stopped reading, and the outcome is a       *)
(* failure whose reason is the payload's message, or the default reason    *)
(* when the payload carries none.                                          *)
(***************************************************************************)
ReasonOf(o, raw) ==
    LET m == Get(PayloadOf(raw), "message")
    IN IF Truthy(m) THEN m.s ELSE FailedMessage(o)

C16_ErrorTerminal ==
    pc \in {"read", "stop"} =>
        \A i \in 1..Len(sess.frames) :
            (EventOf(SplitLines(sess.frames[i])) = ERROR /\ ~Malformed(sess.frames[i])) =>
                /\ i = Len(sess.frames)
                /\ pc = "stop"
                /\ sess.outcome = Failure(Err("Error", ReasonOf(op, sess.frames[i])))

(***************************************************************************)
(* C17.  A frame with a valid payload whose event kind is none of          *)
(* progress, complete, error (the default kind "message" of a frame with   *)
(* no event: line included) changes nothing: apart from the frame being    *)
(* taken off the buffer, the session after it and the frames that follow   *)
(* is the session the following bytes alone produce.                       *)
(***************************************************************************)
OtherKindFrames == {X_DEFAULT, X_UNKNOWN}

C17_OtherKindIgnored ==
    (pc \in {"read", "stop"} /\ sess.outcome # Failure(FetchError)) =>
        \A x \in OtherKindFrames :
            (IsPrefix(x, stream) /\ Len(Handled) >= Len(x)) =>
                LET rest == SubSeq(Handled, Len(x) + 1, Len(Handled))
                    one == OnRead(op, NewSession, [t |-> "chunk", value |-> rest])
                IN /\ EventOf(SplitLines(RawOf(x))) \notin {PROGRESS, COMPLETE, ERROR}
                   /\ IF pc = "read" THEN one.again /\ SameBut(x, sess, one.s)
                      ELSE \/ ~one.again /\ SameBut(x, sess, one.s)
                           \/ one.again /\ SameBut(x, sess, OnDone(op, one.s))
                           \/ one.again /\ SameBut(x, sess, safeReject(one.s, ReadError))

\* A frame with no event: line was dispatched, then a complete frame.
C17_Witness ==
    /\ stream = X_DEFAULT \o F_COMPLETE
    /\ pc = "stop"
    /\ sess.frames = <<RawOf(X_DEFAULT), RawOf(F_COMPLETE)>>
    /\ sess.calls = <<>>
    /\ sess.outcome = Success(Obj([a |-> Num(1)]))
    /\ sess.nSettle = 1

(***************************************************************************)
(* C18.  When a read on the transport rejects while the session is         *)
(* streaming, the handler of the rejection leaves the session failed with  *)
(* the underlying error, settled exactly once, and reading stops; on a     *)
(* session that is already settled the rejection handler changes nothing.  *)
(***************************************************************************)
C18_ReadErrorFails ==
    /\ [][(pc = "read" /\ inbox.t = "error" /\ inbox' = NoResult) =>
            /\ ~Settled
            /\ sess'.outcome = Failure(inbox.err)
            /\ sess'.outcome.err.message = ReadError.message
            /\ sess'.nSettle = 1
            /\ sess'.calls = sess.calls
            /\ pc' = "stop"]_vars
    /\ []((pc \in {"read", "stop"} /\ sess.settled) => safeReject(sess, ReadError) = sess)

\* The read rejected after a progress frame was handled and before the
\* rest of the stream was delivered.
C18_Witness ==
    /\ pc = "stop"
    /\ sess.outcome = Failure(ReadError)
    /\ sess.nSettle = 1
    /\ Len(sess.calls) >= 1
    /\ pos < Len(stream)

RunsAsAlone(c) ==
    LET handled == SubSeq(c.stream, 1,
                          c.pos - (IF c.inbox.t = "chunk" THEN Len(c.inbox.value) ELSE 0))
        one == OnRead(c.op, NewSession, [t |-> "chunk", value |-> handled])
    IN CASE c.pc = "fetch" -> c.sess = NewSession
         [] c.pc = "read" -> one.again /\ c.sess = one.s
         [] OTHER -> \/ ~one.again /\ c.sess = one.s
                     \/ one.again /\ c.sess = OnDone(c.op, one.s)
                     \/ one.again /\ c.sess = safeReject(one.s, ReadError)

C20_SessionsIndependent ==
    /\ RunsAsAlone(other)
    /\ RunsAsAlone([op |-> op, stream |-> stream, pos |-> pos, inbox |-> inbox,
                    pc |-> pc, sess |-> sess])

\* Both sessions are in the middle of their second frame, each with its
\* own text in its buffer and its own progress call made.
C20_Witness ==
    /\ pc = "read"
    /\ other.pc = "read"
    /\ sess.buffer # <<>>
    /\ other.sess.buffer # <<>>
    /\ sess.buffer # other.sess.buffer
    /\ sess.calls = <<<<Num(1), Undefined>>>>
    /\ other.sess.calls = <<<<Num(2), Str("m")>>>>

(***************************************************************************)
(* C21.  A frame is dispatched only once its delimiter has been seen: the  *)
(* buffer is the tail of the text received so far, what precedes it ends   *)
(* with a delimiter whenever a frame was dispatched, there are no more     *)
(* frames dispatched than delimiters seen, and a session that goes on      *)
(* reading holds no delimiter in its buffer.  End-of-stream dispatches     *)
(* nothing: the buffer, the frames and the calls stay as they are and the  *)
(* session fails with the "ended unexpectedly" reason.                     *)
(***************************************************************************)
\* The text of the bytes handled so far.
HandledText == Decode(<<>>, Handled).text

DelimCount(s) == Cardinality({i \in 1..(Len(s) - 1) : s[i] = "\n" /\ s[i + 1] = "\n"})

C21_DelimiterFirst ==
    /\ [](pc \in {"read", "stop"} =>
            LET text == HandledText
                cut == Len(text) - Len(sess.buffer)
                taken == SubSeq(text, 1, cut)
            IN /\ cut >= 0
               /\ sess.buffer = SubSeq(text, cut + 1, Len(text))
               /\ sess.frames # <<>> => (cut >= 2 /\ SubSeq(taken, cut - 1, cut) = DELIM)
               /\ Len(sess.frames) <= DelimCount(taken)
               /\ pc = "read" => IndexOfDelim(sess.buffer) = -1)
    /\ [][(pc = "read" /\ inbox.t = "done" /\ inbox' = NoResult) =>
            /\ sess'.buffer = sess.buffer
            /\ sess'.frames = sess.frames
            /\ sess'.calls = sess.calls
            /\ sess'.outcome = Failure(Err("Error", EndedMessage(op)))]_vars

\* The stream ended one newline short of the delimiter of a complete
\* frame: the whole event is in the buffer and was not dispatched.
C21_Witness ==
    /\ stream = F_COMPLETE
    /\ pc = "stop"
    /\ sess.buffer = SubSeq(F_COMPLETE, 1, Len(F_COMPLETE) - 1)
    /\ sess.frames = <<>>
    /\ sess.outcome = Failure(Err("Error", EndedMessage(op)))

(***************************************************************************)
(* C22.  Within one frame, the event kind is the trimmed value of its      *)
(* event: line, "message" when it has none; the data text handed to JSON   *)
(* parsing is the contents of its data: lines, in order, joined with a     *)
(* newline; lines with any other prefix affect neither.                    *)
(***************************************************************************)
OfKind(ls, kind) ==
    LET Is(l) == l.kind = kind
    IN SelectSeq(ls, Is)

\* The kind the lines give: the value of the last event: line.
KindOfLines(ls) ==
    LET ev == OfKind(ls, "event")
    IN IF ev = <<>> THEN MESSAGE ELSE ev[Len(ev)].val

\* The contents of the data: lines as they stand after the prefix.
ContentsOfLines(ls) ==
    LET ds == OfKind(ls, "data")
    IN Join([i \in 1..Len(ds) |-> ds[i].pad \o ds[i].val \o ds[i].pad])

\* The contents of the data: lines, each without its surrounding whitespace.
TrimmedContentsOfLines(ls) ==
    LET ds == OfKind(ls, "data")
    IN Join([i \in 1..Len(ds) |-> ds[i].val])

\* as claimed
C22_FrameParse ==
    (parse # Null /\ parse.out # Null) =>
        /\ parse.out.event = KindOfLines(parse.lines)
        /\ parse.out.dataStr = ContentsOfLines(parse.lines)

\* as amended: every data: line is trimmed before the join, and the last
\* event: line gives the kind
C22_FrameParseTrimmed ==
    (parse # Null /\ parse.out # Null) =>
        /\ parse.out.event = KindOfLines(parse.lines)
        /\ parse.out.dataStr = TrimmedContentsOfLines(parse.lines)

\* Two padded data lines around a comment line and two event lines, with
\* \r\n line ends: the payload text is the two contents joined by \n.
C22_Witness ==
    /\ parse # Null
    /\ parse.out # Null
    /\ Len(parse.lines) = MaxLines
    /\ parse.lines[1] = Line("data", <<" ">>, J_PCT_A)
    /\ parse.lines[2].kind = "other"
    /\ parse.lines[3] = Line("data", <<" ">>, J_PCT_B)
    /\ \E i \in 1..Len(parse.text) : parse.text[i] = "\r"
    /\ parse.out.dataStr = J_PCT_A \o <<"\n">> \o J_PCT_B
    /\ JSONParse(parse.out.dataStr).ok
    /\ parse.out.event = MESSAGE

(***************************************************************************)
(* C23.  If the progress callback throws while it is called for a progress *)
(* frame, the session is failed with that exception and reads no more: the *)
(* throwing call is the last call, its frame is the last frame dispatched, *)
(* the session has stopped and the outcome is the failure with the         *)
(* exception.                                                              *)
(***************************************************************************)
\* The i-th call of the session made the callback throw.
Threw(i) == sess.calls[i][1].n \in sess.throwsOn

C23_CallbackThrowFails ==
    pc \in {"read", "stop"} =>
        \A i \in 1..Len(sess.calls) :
            Threw(i) =>
                /\ i = Len(sess.calls)
                /\ IsProgressFrame(sess.frames[Len(sess.frames)])
                /\ pc = "stop"
                /\ sess.outcome = Failure(CallbackError)
                /\ sess.nSettle = 1

\* The callback threw on the first of two progress frames that came in one
\* chunk with the complete frame: both are left in the buffer.
C23_Witness ==
    /\ pc = "stop"
    /\ Len(sess.calls) = 1
    /\ Threw(1)
    /\ Len(sess.frames) = 1
    /\ DelimCount(sess.buffer) >= 2
    /\ sess.outcome = Failure(CallbackError)

(***************************************************************************)
(* C24.  getModelDetails requests /models/details/{id}, /models/{id},      *)
(* /models/metadata/{id} in that order, the next one only after the one    *)
(* before has failed; it returns the first successful response and         *)
(* requests nothing after it; when all three have failed it throws an      *)
(* error with the message of the last failure, or the "not available"      *)
(* text when that failure has no message.                                  *)
(***************************************************************************)
C24_CandidatesInOrder ==
    md # Null =>
        LET enc == EncodeURIComponent(md.modelId)
            order == <<<<"/models/details/", enc>>, <<"/models/", enc>>,
                       <<"/models/metadata/", enc>>>>
            n == Len(md.results)
        IN /\ IsPrefix(md.requested, order)
           /\ Len(md.requested) = (IF md.pc = "await" THEN n + 1 ELSE n)
           /\ \A i \in 1..(n - 1) : md.results[i].kind = "failure"
           /\ md.pc = "await" => (md.out = Pending /\ \A i \in 1..n : md.results[i].kind = "failure")
           /\ (md.pc = "done" /\ md.results[n].kind = "success") => md.out = md.results[n]
           /\ (md.pc = "done" /\ md.results[n].kind = "failure") =>
                /\ n = Len(order)
                /\ md.out.kind = "failure"
                /\ md.out.err.message =
                      (IF md.results[n].err.message # "" THEN md.results[n].err.message
                       ELSE NotAvailableMessage)

\* The first candidate timed out, the second was not found, the third
\* failed without a message: the error has the "not available" text.
C24_Witness ==
    /\ md # Null
    /\ md.pc = "done"
    /\ Len(md.requested) = 3
    /\ Len(md.results) = 3
    /\ md.results[1] = Failure(TimeoutError)
    /\ md.results[2] = Failure(HttpErr("Error", "Not found.", Num(404), Null))
    /\ md.results[3] = Failure(HttpErr("Error", "", Undefined, Null))
    /\ md.out = Failure(Err("Error", NotAvailableMessage))

(***************************************************************************)
(* C25: useWizard.goTo(next) changes the step only if the prerequisites of *)
(* next hold (preprocess: datasetInfo; train: datasetInfo and              *)
(* preprocessInfo; predict: trainInfo; results: predictInfo) and neither   *)
(* training nor prediction is running; in every other case the whole       *)
(* wizard state, step and fatalError included, stays as it was.            *)
(***************************************************************************)
PrerequisitesHold(w, next) ==
    CASE next = "preprocess" -> w.datasetInfo # Null
      [] next = "train" -> w.datasetInfo # Null /\ w.preprocessInfo # Null
      [] next = "predict" -> w.trainInfo # Null
      [] next = "results" -> w.predictInfo # Null
      [] OTHER -> TRUE

NothingRunning(w) == w.trainingState # "running" /\ w.predictionState # "running"

HookState(w) == [w EXCEPT !.lastGoTo = NoGoTo]

C25_GoToGuarded ==
    [][\A next \in Steps :
         wiz' = goTo(wiz, next) =>
            /\ wiz'.step # wiz.step => PrerequisitesHold(wiz, next) /\ NothingRunning(wiz)
            /\ ~(PrerequisitesHold(wiz, next) /\ NothingRunning(wiz))
                  => HookState(wiz') = HookState(wiz)
            /\ wiz'.lastGoTo.moved
                  => HookState(wiz') = HookState([wiz EXCEPT !.step = next,
                                                             !.fatalError = Null])]_vars

C25_Witness ==
    /\ wiz.lastGoTo = [next |-> "predict", moved |-> FALSE]
    /\ wiz.trainInfo # Null
    /\ wiz.trainingState = "running"
    /\ wiz.step = "train"
    /\ wiz.fatalError = Str("f")

(***************************************************************************)
(* C26: in App, once the step guard effect has nothing left to do, the     *)
(* displayed step has its prerequisites: preprocess needs datasetInfo;     *)
(* train needs datasetInfo and preprocessInfo; predict needs datasetInfo,  *)
(* preprocessInfo and trainInfo; results needs trainInfo and predictInfo;  *)
(* after any sequence of goTo, upload, preprocess, training, prediction    *)
(* and reset events and their completions.                                 *)
(***************************************************************************)
C26_StepHasPrerequisites ==
    ~GuardPending(app) =>
       /\ app.step = "preprocess" => app.datasetInfo # Null
       /\ app.step = "train" => app.datasetInfo # Null /\ app.preprocessInfo # Null
       /\ app.step = "predict" =>
             app.datasetInfo # Null /\ app.preprocessInfo # Null /\ app.trainInfo # Null
       /\ app.step = "results" => app.trainInfo # Null /\ app.predictInfo # Null

C26_Witness ==
    /\ app.guarded
    /\ ~GuardPending(app)
    /\ app.step = "train"
    /\ app.trainInfo = Null
    /\ app.predictInfo # Null

(***************************************************************************)
(* C29: in App, whenever the predict step is shown with a schemaInfo that  *)
(* is not null (and the schema effect has run for the current modelId),    *)
(* that schema is the one loaded for the current modelId, under every      *)
(* interleaving of retraining, upload, reset and schema load completions.  *)
(***************************************************************************)
C29_SchemaOfCurrentModel ==
    (Quiet(app) /\ ShowsPredict(app) /\ app.schemaInfo # Null)
       => app.schemaInfo = SchemaFor(modelId(app))

(***************************************************************************)
(* C30: in App, under every interleaving of the user's actions with the    *)
(* completions of the calls in flight, trainInfo set implies               *)
(* preprocessInfo and datasetInfo set, and predictInfo set implies         *)
(* trainInfo set.                                                          *)
(***************************************************************************)
C30_PipelineOrder ==
    /\ app.trainInfo # Null => app.preprocessInfo # Null /\ app.datasetInfo # Null
    /\ app.predictInfo # Null => app.trainInfo # Null

(***************************************************************************)
(* C27: when HttpClient.request has returned or thrown, by any path, its   *)
(* timeout timer has been cleared: no timer of a finished request is still *)
(* pending, and no abort is triggered after the request has finished.      *)
(***************************************************************************)
C27_TimerCleared ==
    /\ hpc = "done" => timer # "armed"
    /\ firedIn # "done"

(***************************************************************************)
(* C28: trainModelStream and predictStream are the same session state      *)
(* machine: from the same initial response and the same read results they  *)
(* make the same progress callbacks and settle the same way, success with  *)
(* the same payload or failure at the same point, and differ only in the   *)
(* default failure texts.                                                  *)
(***************************************************************************)
Twin(o) == IF o = "train" THEN "predict" ELSE "train"

TwinText(o, m) ==
    IF m = InitFailedMessage(o) THEN InitFailedMessage(Twin(o))
    ELSE IF m = EndedMessage(o) THEN EndedMessage(Twin(o))
    ELSE IF m = FailedMessage(o) THEN FailedMessage(Twin(o))
    ELSE m

TwinOutcome(o, out) ==
    IF out.kind = "failure" /\ out.err.name = "Error"
    THEN Failure(Err("Error", TwinText(o, out.err.message)))
    ELSE out

TwinSession(o, s) == [s EXCEPT !.outcome = TwinOutcome(o, @)]

====
